---------------------------- MODULE Spec2Model ----------------------------
(***************************************************************************)
(* Model of the recommendation backend (Project/backend/app): prerequisite *)
(* checking, year detection, MMR diversification, the lazy corpus load of  *)
(* the club/gened recommenders and the technical recommender's filtering.  *)
(*                                                                         *)
(* Strings are sequences of one-character strings, so that strip, upper,   *)
(* the course-code regular expression and the "or"/"and" splitting are     *)
(* computed as the code computes them.  Scores are scaled integers.        *)
(***************************************************************************)
EXTENDS Integers, Sequences, FiniteSets, TLC

VARIABLES
    \* one call of can_take_course
    pq_pc, pq_prereqs, pq_completed, pq_result,
    \* one call of detect_student_year
    yr_pc, yr_completed, yr_year,
    \* one run of the MMR diversifier inside a recommend operation
    mm_pc, mm_scores, mm_pattern, mm_lambda, mm_topk, mm_domain,
    mm_selected, mm_candidates, mm_result,
    \* request threads on one club or gened recommender
    ld_kind, ld_file_ok, ld_fit_ok, ld_tags_ok, ld_pc, ld_df, ld_tags,
    ld_vocab, ld_vectorizer, ld_fitted, ld_X, ld_local, ld_reads, ld_fits,
    \* one request to the technical or to the rule-based recommender
    tc_pc, tc_corpus, tc_completed, tc_in_progress, tc_major, tc_error,
    tc_year, tc_courses_df, tc_eligible, tc_level_filtered, tc_df_eligible,
    tc_interest_scores, tc_rule_boosts, tc_topk, tc_result, rb_result,
    \* one call of normalize_course_code and a second call on its result
    nm_pc, nm_impl, nm_parts, nm_code, nm_result, nm_again,
    \* the scoring stage of one club, gened or technical request
    sc_pc, sc_domain, sc_rows, sc_interests, sc_query, sc_sims, sc_additive,
    sc_multiplicative, sc_final,
    \* the start of one club or gened request: typo correction, tag merging
    cl_pc, cl_kind, cl_tag_categories, cl_vocab, cl_interests,
    cl_preferred_tags, cl_extract, cl_words, cl_fixed_tags, cl_merged, cl_error,
    \* one request to the combined endpoint: the threads of the three domains
    cb_files, cb_cache, cb_pc, cb_self, cb_result, cb_fallback,
    \* one call of parse_prerequisite_string
    pp_pc, pp_prereq_str, pp_groups,
    \* one request to the combined endpoint: what each task returns
    ep_major_name, ep_outcome, ep_task, ep_started, ep_pc, ep_response,
    \* calls of one singleton accessor from worker threads
    sg_accessor, sg_global, sg_pc, sg_new, sg_returned, sg_constructed

pqvars == <<pq_pc, pq_prereqs, pq_completed, pq_result>>
yrvars == <<yr_pc, yr_completed, yr_year>>
mmvars == <<mm_pc, mm_scores, mm_pattern, mm_lambda, mm_topk, mm_domain,
            mm_selected, mm_candidates, mm_result>>
ldvars == <<ld_kind, ld_file_ok, ld_fit_ok, ld_tags_ok, ld_pc, ld_df, ld_tags,
            ld_vocab, ld_vectorizer, ld_fitted, ld_X, ld_local, ld_reads, ld_fits>>
tcvars == <<tc_pc, tc_corpus, tc_completed, tc_in_progress, tc_major, tc_error,
            tc_year, tc_courses_df, tc_eligible, tc_level_filtered,
            tc_df_eligible, tc_interest_scores, tc_rule_boosts, tc_topk,
            tc_result, rb_result>>
nmvars == <<nm_pc, nm_impl, nm_parts, nm_code, nm_result, nm_again>>
scvars == <<sc_pc, sc_domain, sc_rows, sc_interests, sc_query, sc_sims,
            sc_additive, sc_multiplicative, sc_final>>
clvars == <<cl_pc, cl_kind, cl_tag_categories, cl_vocab, cl_interests,
            cl_preferred_tags, cl_extract, cl_words, cl_fixed_tags, cl_merged,
            cl_error>>
cbvars == <<cb_files, cb_cache, cb_pc, cb_self, cb_result, cb_fallback>>
ppvars == <<pp_pc, pp_prereq_str, pp_groups>>
epvars == <<ep_major_name, ep_outcome, ep_task, ep_started, ep_pc,
            ep_response>>
sgvars == <<sg_accessor, sg_global, sg_pc, sg_new, sg_returned,
            sg_constructed>>
vars == <<pqvars, yrvars, mmvars, ldvars, tcvars, nmvars, scvars, clvars,
          cbvars, ppvars, epvars, sgvars>>

-----------------------------------------------------------------------------
(* Characters and the str methods the code uses                            *)

\* U+00A0, which str.strip() and \s treat as whitespace
NBSP == "nbsp"
WS == {" ", NBSP}
UpperLetters ==
    {"A", "B", "C", "D", "E", "F", "G", "H", "I", "J", "K", "L", "M",
     "N", "O", "P", "Q", "R", "S", "T", "U", "V", "W", "X", "Y", "Z"}
Digits == {"0", "1", "2", "3", "4", "5", "6", "7", "8", "9"}

\* str.upper() and str.lower(), letter by letter
UpperMap ==
    [a |-> "A", b |-> "B", c |-> "C", d |-> "D", e |-> "E", f |-> "F",
     g |-> "G", h |-> "H", i |-> "I", j |-> "J", k |-> "K", l |-> "L",
     m |-> "M", n |-> "N", o |-> "O", p |-> "P", q |-> "Q", r |-> "R",
     s |-> "S", t |-> "T", u |-> "U", v |-> "V", w |-> "W", x |-> "X",
     y |-> "Y", z |-> "Z"]
LowerMap ==
    [A |-> "a", B |-> "b", C |-> "c", D |-> "d", E |-> "e", F |-> "f",
     G |-> "g", H |-> "h", I |-> "i", J |-> "j", K |-> "k", L |-> "l",
     M |-> "m", N |-> "n", O |-> "o", P |-> "p", Q |-> "q", R |-> "r",
     S |-> "s", T |-> "t", U |-> "u", V |-> "v", W |-> "w", X |-> "x",
     Y |-> "y", Z |-> "z"]

\* str.upper() on one character
UpperChar(c) == IF c \in DOMAIN UpperMap THEN UpperMap[c] ELSE c

\* str.lower() on one character
LowerChar(c) == IF c \in DOMAIN LowerMap THEN LowerMap[c] ELSE c

Upper(s) == [i \in 1..Len(s) |-> UpperChar(s[i])]
Lower(s) == [i \in 1..Len(s) |-> LowerChar(s[i])]

\* str.strip(): drop leading and trailing whitespace
Strip(s) ==
    IF \A i \in 1..Len(s) : s[i] \in WS THEN <<>>
    ELSE LET first == CHOOSE i \in 1..Len(s) :
                         s[i] \notin WS /\ \A j \in 1..(i-1) : s[j] \in WS
             last == CHOOSE i \in 1..Len(s) :
                         s[i] \notin WS /\ \A j \in (i+1)..Len(s) : s[j] \in WS
         IN SubSeq(s, first, last)

\* sub in s
Contains(s, sub) ==
    \E i \in 1..(Len(s) - Len(sub) + 1) : SubSeq(s, i, i + Len(sub) - 1) = sub

\* re.match(r'^([A-Z]{2,4})\s*(\d{3}[A-Z]?)$', s): the department length d and
\* the whitespace length w of the match, when there is one
CodeMatches(s) ==
    {m \in (2..4) \X (0..Len(s)) \X (0..1) :
        /\ Len(s) = m[1] + m[2] + 3 + m[3]
        /\ \A i \in 1..m[1] : s[i] \in UpperLetters
        /\ \A i \in (m[1]+1)..(m[1]+m[2]) : s[i] \in WS
        /\ \A i \in (m[1]+m[2]+1)..(m[1]+m[2]+3) : s[i] \in Digits
        /\ (m[3] = 1 => s[Len(s)] \in UpperLetters)}

normalize_course_code_lower(code) ==
    LET c == Lower(Strip(code))
        ms == CodeMatches(Upper(c))
    IN IF ms # {}
       THEN LET m == CHOOSE x \in ms : TRUE
            IN SubSeq(c, 1, m[1]) \o <<" ">> \o SubSeq(c, m[1]+m[2]+1, Len(c))
       ELSE c

normalize_course_code_nospace(code) ==
    Upper(Strip(code))

\* prereq_checker.normalize_course_code
normalize_course_code(code) ==
    LET c == Upper(Strip(code))
        ms == CodeMatches(c)
    IN IF ms # {}
       THEN LET m == CHOOSE x \in ms : TRUE
            IN SubSeq(c, 1, m[1]) \o <<" ">> \o SubSeq(c, m[1]+m[2]+1, Len(c))
       ELSE c

-----------------------------------------------------------------------------
(* re.split(r'\s+WORD\s+', s, flags=re.IGNORECASE)                         *)

\* the positions where \s+WORD\s+ matches
SepStarts(s, word) ==
    {i \in 1..Len(s) :
        /\ s[i] \in WS
        /\ \E j \in (i+1)..Len(s) :
              /\ \A k \in i..(j-1) : s[k] \in WS
              /\ j + Len(word) <= Len(s)
              /\ Lower(SubSeq(s, j, j + Len(word) - 1)) = word
              /\ s[j + Len(word)] \in WS}

Min(S) == CHOOSE x \in S : \A y \in S : x <= y
Max(S) == CHOOSE x \in S : \A y \in S : x >= y

\* the first index at or after i that holds no whitespace (Len(s)+1 if none)
SkipWs(s, i) ==
    IF \A k \in i..Len(s) : s[k] \in WS THEN Len(s) + 1
    ELSE Min({k \in i..Len(s) : s[k] \notin WS})

RECURSIVE RegexSplit(_, _)
RegexSplit(s, word) ==
    LET starts == SepStarts(s, word) IN
    IF starts = {} THEN <<s>>
    ELSE LET i == Min(starts)
             j == SkipWs(s, i)
             e == SkipWs(s, j + Len(word))
         IN <<SubSeq(s, 1, i - 1)>> \o RegexSplit(SubSeq(s, e, Len(s)), word)

OrWord == <<"o", "r">>
AndWord == <<"a", "n", "d">>

\* every part of the split becomes a group of its own (lines 36-37, 41-42)
SingletonGroups(parts) ==
    [i \in 1..Len(parts) |-> <<normalize_course_code(Strip(parts[i]))>>]

OneGroup(parts) ==
    <<[i \in 1..Len(parts) |-> normalize_course_code(Strip(parts[i]))]>>

\* prereq_checker.parse_prerequisite_string
parse_prerequisite_string(prereq_str) ==
    IF prereq_str = <<>> \/ Strip(prereq_str) = <<>> THEN <<>>
    ELSE LET s == Strip(prereq_str) IN
         IF Contains(Lower(s), <<" ">> \o OrWord \o <<" ">>)
         THEN SingletonGroups(RegexSplit(s, OrWord))
         ELSE IF Contains(Lower(s), <<" ">> \o AndWord \o <<" ">>)
         THEN SingletonGroups(RegexSplit(s, AndWord))
         ELSE LET normalized == normalize_course_code(s)
              IN IF normalized # <<>> THEN <<<<normalized>>>> ELSE <<>>

-----------------------------------------------------------------------------
(* Python values in a prerequisites list: a str, or a list of str          *)

PyStr(v) == [t |-> "str", v |-> v]
PyList(v) == [t |-> "list", v |-> v]

RECURSIVE JoinRepr(_, _)
JoinRepr(items, i) ==
    IF i > Len(items) THEN <<>>
    ELSE (IF i > 1 THEN <<",", " ">> ELSE <<>>)
         \o <<"'">> \o items[i] \o <<"'">> \o JoinRepr(items, i + 1)

\* str(prereq) for a prereq that is a list of str
StrOfList(items) == <<"[">> \o JoinRepr(items, 1) \o <<"]">>

AllGroupsSatisfied(or_groups, completed_normalized) ==
    \A g \in 1..Len(or_groups) :
        \E k \in 1..Len(or_groups[g]) :
            normalize_course_code(or_groups[g][k]) \in completed_normalized

\* lines 86-89: any course of any group is among the completed ones
GroupsSatisfied(or_groups, completed_normalized) ==
    \E g \in 1..Len(or_groups) :
        \E k \in 1..Len(or_groups[g]) :
            normalize_course_code(or_groups[g][k]) \in completed_normalized

\* the loop of check_prerequisites_met from index i on (lines 79-110)
RECURSIVE CheckLoop(_, _, _, _)
CheckLoop(prerequisites, i, completed_normalized, missing) ==
    IF i > Len(prerequisites) THEN [met |-> FALSE, missing |-> missing]
    ELSE LET prereq == prerequisites[i] IN
         IF prereq.t = "str"
         THEN LET or_groups == parse_prerequisite_string(prereq.v) IN
              IF or_groups # <<>>
              THEN IF GroupsSatisfied(or_groups, completed_normalized)
                   THEN [met |-> TRUE, missing |-> missing]
                   ELSE CheckLoop(prerequisites, i + 1, completed_normalized,
                                  missing \o or_groups[1])
              ELSE LET normalized_prereq == normalize_course_code(prereq.v) IN
                   IF normalized_prereq \in completed_normalized
                   THEN [met |-> TRUE, missing |-> missing]
                   ELSE CheckLoop(prerequisites, i + 1, completed_normalized,
                                  Append(missing, normalized_prereq))
         ELSE LET normalized_prereq == normalize_course_code(StrOfList(prereq.v)) IN
              IF normalized_prereq \in completed_normalized
              THEN [met |-> TRUE, missing |-> missing]
              ELSE CheckLoop(prerequisites, i + 1, completed_normalized,
                             Append(missing, normalized_prereq))

\* prereq_checker.check_prerequisites_met
check_prerequisites_met(prerequisites, completed_courses) ==
    IF prerequisites = <<>> THEN [met |-> TRUE, missing |-> <<>>]
    ELSE LET completed_normalized ==
                 {normalize_course_code(c) : c \in completed_courses}
         IN CheckLoop(prerequisites, 1, completed_normalized, <<>>)

\* prereq_checker.can_take_course, course_data.get('prerequisites', [])
can_take_course(course_code, completed_courses, prerequisites) ==
    check_prerequisites_met(prerequisites, completed_courses)

-----------------------------------------------------------------------------
(* Course-code spellings used as inputs                                    *)

CS124 == <<"C", "S", " ", "1", "2", "4">>
CS125 == <<"C", "S", " ", "1", "2", "5">>
CS128 == <<"C", "S", " ", "1", "2", "8">>
CS173 == <<"C", "S", " ", "1", "7", "3">>
CS225 == <<"C", "S", " ", "2", "2", "5">>
CS233 == <<"C", "S", " ", "2", "3", "3">>
CS361 == <<"C", "S", " ", "3", "6", "1">>
CS341 == <<"C", "S", " ", "3", "4", "1">>
CS357 == <<"C", "S", " ", "3", "5", "7">>
CS374 == <<"C", "S", " ", "3", "7", "4">>
CS421 == <<"C", "S", " ", "4", "2", "1">>
CS498 == <<"C", "S", " ", "4", "9", "8">>
MATH221 == <<"M", "A", "T", "H", " ", "2", "2", "1">>
MATH231 == <<"M", "A", "T", "H", " ", "2", "3", "1">>
MATH241 == <<"M", "A", "T", "H", " ", "2", "4", "1">>
MATH257 == <<"M", "A", "T", "H", " ", "2", "5", "7">>
PHYS211 == <<"P", "H", "Y", "S", " ", "2", "1", "1">>
PHYS212 == <<"P", "H", "Y", "S", " ", "2", "1", "2">>
\* the same codes in other spellings
cs124_tight == <<"c", "s", "1", "2", "4">>
cs125_lower == <<"c", "s", " ", "1", "2", "5">>
math221_padded == <<" ", "m", "a", "t", "h", "2", "2", "1", " ">>
cs421_tight == <<"c", "s", "4", "2", "1">>
cs341_wide == <<"C", "s", " ", " ", "3", "4", "1">>
CS374_tight == <<"C", "S", "3", "7", "4">>
math221_lower == <<"m", "a", "t", "h", " ", "2", "2", "1">>
\* prerequisite strings
CS124_or_CS125 == CS124 \o <<" ", "o", "r", " ">> \o CS125
CS124_and_MATH221 == CS124 \o <<" ", "a", "n", "d", " ">> \o MATH221
cs124_AND_math221 == cs124_tight \o <<" ", " ", "A", "N", "D", " ">> \o math221_lower
EmptyStr == <<>>

-----------------------------------------------------------------------------
(* Prerequisite check on its own: one call of can_take_course              *)

MaxPrereqs == 2
MaxCompleted == 2

PrereqEntries ==
    {PyStr(CS124), PyStr(CS125), PyStr(MATH221), PyStr(cs124_tight),
     PyStr(CS124_or_CS125), PyStr(CS124_and_MATH221), PyStr(cs124_AND_math221),
     PyStr(EmptyStr),
     PyList(<<CS124>>), PyList(<<MATH221>>), PyList(<<CS124, CS125>>)}

PrereqLists == UNION {[1..n -> PrereqEntries] : n \in 0..MaxPrereqs}

CompletedPool == {CS124, CS125, MATH221, cs125_lower, math221_padded}

CompletedSets == {S \in SUBSET CompletedPool : Cardinality(S) <= MaxCompleted}

NoResult == [met |-> FALSE, missing |-> <<>>]

PqInit ==
    /\ pq_pc = "call"
    /\ pq_prereqs \in PrereqLists
    /\ pq_completed \in CompletedSets
    /\ pq_result = NoResult

PqIdle ==
    /\ pq_pc = "idle"
    /\ pq_prereqs = <<>>
    /\ pq_completed = {}
    /\ pq_result = NoResult

\* one call can_take_course(course, completed, {'prerequisites': prereqs})
CanTakeCourse ==
    /\ pq_pc = "call"
    /\ pq_result' = can_take_course(<<>>, pq_completed, pq_prereqs)
    /\ pq_pc' = "done"
    /\ UNCHANGED <<pq_prereqs, pq_completed>>


-----------------------------------------------------------------------------
(* Claims about the prerequisite check                                     *)

PqNormalizedCompleted == {normalize_course_code(c) : c \in pq_completed}

SpaceWord(word) == <<" ">> \o word \o <<" ">>

\* prerequisites written as groups that must all hold: one string joining
\* course codes with "and", or a list of lists
AndShaped(prereqs) ==
    \/ /\ Len(prereqs) = 1
       /\ prereqs[1].t = "str"
       /\ Contains(Lower(Strip(prereqs[1].v)), SpaceWord(AndWord))
       /\ ~Contains(Lower(Strip(prereqs[1].v)), SpaceWord(OrWord))
    \/ /\ Len(prereqs) >= 1
       /\ \A i \in 1..Len(prereqs) : prereqs[i].t = "list"

\* the groups of such prerequisites
ClaimGroups(prereqs) ==
    IF prereqs[1].t = "str"
    THEN LET parts == RegexSplit(Strip(prereqs[1].v), AndWord)
         IN [i \in 1..Len(parts) |-> <<parts[i]>>]
    ELSE [i \in 1..Len(prereqs) |-> prereqs[i].v]

\* C1: prerequisite groups are ANDed: a course whose prerequisites form
\* several groups is reported eligible only when every group has a member
\* among the normalized completed courses.
C1_GroupsAnded ==
    (pq_pc = "done" /\ AndShaped(pq_prereqs) /\ pq_result.met)
        => AllGroupsSatisfied(ClaimGroups(pq_prereqs), PqNormalizedCompleted)

\* prerequisites that are a flat list of plain course codes
FlatCodes(prereqs) ==
    /\ Len(prereqs) >= 1
    /\ \A i \in 1..Len(prereqs) :
          /\ prereqs[i].t = "str"
          /\ CodeMatches(Upper(Strip(prereqs[i].v))) # {}

-----------------------------------------------------------------------------
(* year_detector.detect_student_year                                       *)

Years == {"first_year", "second_year", "third_year", "fourth_year"}

\* CORE_CS_COURSES['first_year'], CORE_MATH_COURSES['first_year']
CoreCsFirstYear == {CS124, CS128, CS173}
CoreMathFirstYear == {MATH221, MATH231}
third_year_milestones == {CS341, CS357, CS374}
second_year_milestones == {CS225, CS233, CS361}
math_physics_second_courses == {MATH241, MATH257, PHYS211, PHYS212}

\* sum(1 for course in courses if normalize_course_code(course) in completed_set)
CountIn(courses, completed_set) ==
    Cardinality({c \in courses : normalize_course_code(c) \in completed_set})

\* the milestone tests with exact counts in place of thresholds
DetectFromSetExactCounts(completed_set) ==
    LET third_year_completed == CountIn(third_year_milestones, completed_set)
        second_year_completed == CountIn(second_year_milestones, completed_set)
        math_physics_second == CountIn(math_physics_second_courses, completed_set)
        first_year_cs == CountIn(CoreCsFirstYear, completed_set)
        first_year_math == CountIn(CoreMathFirstYear, completed_set)
    IN IF normalize_course_code(CS421) \in completed_set THEN "fourth_year"
       ELSE IF third_year_completed = 2 THEN "fourth_year"
       ELSE IF third_year_completed = 1 THEN "third_year"
       ELSE IF second_year_completed = 2
               \/ (second_year_completed = 1 /\ math_physics_second = 2)
            THEN "third_year"
       ELSE IF second_year_completed = 1 \/ math_physics_second = 1
            THEN "second_year"
       ELSE IF first_year_cs = 2 /\ first_year_math = 1 THEN "second_year"
       ELSE "first_year"

\* lines 41-82, on the set built at line 38
DetectFromSet(completed_set) ==
    LET third_year_completed == CountIn(third_year_milestones, completed_set)
        second_year_completed == CountIn(second_year_milestones, completed_set)
        math_physics_second == CountIn(math_physics_second_courses, completed_set)
        first_year_cs == CountIn(CoreCsFirstYear, completed_set)
        first_year_math == CountIn(CoreMathFirstYear, completed_set)
    IN IF normalize_course_code(CS421) \in completed_set THEN "fourth_year"
       ELSE IF third_year_completed >= 2 THEN "fourth_year"
       ELSE IF third_year_completed >= 1 THEN "third_year"
       ELSE IF second_year_completed >= 2
               \/ (second_year_completed >= 1 /\ math_physics_second >= 2)
            THEN "third_year"
       ELSE IF second_year_completed >= 1 \/ math_physics_second >= 1
            THEN "second_year"
       ELSE IF first_year_cs >= 2 /\ first_year_math >= 1 THEN "second_year"
       ELSE IF first_year_cs >= 1 \/ first_year_math >= 1 THEN "first_year"
       ELSE "first_year"

detect_student_year_unnormalized(completed_courses) ==
    DetectFromSet(completed_courses)

\* year_detector.detect_student_year
detect_student_year(completed_courses) ==
    DetectFromSet({normalize_course_code(c) : c \in completed_courses})

MaxYearCompleted == 3

YearPool ==
    {CS124, CS128, CS173, MATH221, MATH231, CS225, CS233, CS361, MATH241,
     MATH257, PHYS211, PHYS212, CS341, CS357, CS374, CS421,
     cs421_tight, cs341_wide, CS374_tight, cs124_tight, math221_padded}

YearInputs == {S \in SUBSET YearPool : Cardinality(S) <= MaxYearCompleted}

YrInit ==
    /\ yr_pc = "call"
    /\ yr_completed \in YearInputs
    /\ yr_year = "none"

YrIdle ==
    /\ yr_pc = "idle"
    /\ yr_completed = {}
    /\ yr_year = "none"

\* one call detect_student_year(completed_courses)
DetectStudentYear ==
    /\ yr_pc = "call"
    /\ yr_year' = detect_student_year(yr_completed)
    /\ yr_pc' = "done"
    /\ UNCHANGED yr_completed

YrNormalized == {normalize_course_code(c) : c \in yr_completed}
YrThirdCount == Cardinality(third_year_milestones \cap YrNormalized)

\* C10: detect_student_year returns one of the four years; fourth_year when
\* CS 421 or at least two of CS 341, CS 357, CS 374 are completed; third_year
\* when exactly one of those three is (and CS 421 is not); first_year for the
\* empty set; second_year for {CS 124, CS 128, MATH 221}; codes are compared
\* after normalization.
C10_YearClassifier ==
    yr_pc = "done" =>
        /\ yr_year \in Years
        /\ (CS421 \in YrNormalized \/ YrThirdCount >= 2 => yr_year = "fourth_year")
        /\ (CS421 \notin YrNormalized /\ YrThirdCount = 1 => yr_year = "third_year")
        /\ (yr_completed = {} => yr_year = "first_year")
        /\ (YrNormalized = {CS124, CS128, MATH221} => yr_year = "second_year")

C10_Witness ==
    /\ yr_pc = "done"
    /\ yr_completed = {cs341_wide, CS374_tight, cs124_tight}
    /\ yr_year = "fourth_year"

\* first_year < second_year < third_year < fourth_year
YearRank ==
    [first_year |-> 1, second_year |-> 2, third_year |-> 3, fourth_year |-> 4]

\* C11: detect_student_year is monotonic in the completed set: the year
\* returned for a set T is never lower than the year returned for any subset
\* S of T.
C11_YearMonotonic ==
    yr_pc = "done" =>
        \A S \in SUBSET yr_completed :
            YearRank[detect_student_year(S)] <= YearRank[yr_year]

\* T holds three third-year milestones, a subset holds two, another none
C11_Witness ==
    /\ yr_pc = "done"
    /\ yr_completed = {cs341_wide, CS357, CS374_tight}
    /\ yr_year = "fourth_year"
    /\ detect_student_year({cs341_wide}) = "third_year"
    /\ detect_student_year({}) = "first_year"

-----------------------------------------------------------------------------
(* MMR diversification and the tail of the recommend operations            *)
(* Indices are 1-based here (0-based in the code); scores and similarities *)
(* are in ten-thousandths, lambda in tenths.                               *)

MaxN == 3
MaxTopK == 3
ScoreValues == {-3000, 0, 4000}
LambdaValues == {0, 7, 10}
Domains == {"club", "gened", "technical"}
SimPatterns == {"distinct", "identical", "neighbours", "first_pair"}

\* cosine_similarity(X[c:c+1], X[s]) of rows c and s under a pattern of corpus
Similarity(pattern, c, s) ==
    IF c = s THEN 10000
    ELSE CASE pattern = "distinct" -> 0
           [] pattern = "identical" -> 10000
           [] pattern = "neighbours" -> (IF c - s \in {-1, 1} THEN 8000 ELSE 2000)
           [] pattern = "first_pair" -> (IF {c, s} = {1, 2} THEN 9000 ELSE 0)

\* the last position holding the maximum
ArgMaxLast(seq) ==
    Max({i \in 1..Len(seq) : \A j \in 1..Len(seq) : seq[i] >= seq[j]})

\* np.argmax: the first position holding the maximum
ArgMax(seq) ==
    Min({i \in 1..Len(seq) : \A j \in 1..Len(seq) : seq[i] >= seq[j]})

DeleteNothing(seq, idx) == seq

\* np.delete(candidates, idx)
DeleteAt(seq, idx) ==
    [i \in 1..(Len(seq) - 1) |-> IF i < idx THEN seq[i] ELSE seq[i + 1]]

\* np.where(candidates == first): candidates is arange, first occurs once
PositionOf(seq, v) == CHOOSE i \in 1..Len(seq) : seq[i] = v

\* np.arange(len(scores))
Arange(n) == [i \in 1..n |-> i]

\* lines 295-308: the MMR score of candidate c
MmrScore(c, selected, scores, pattern, lambda) ==
    LET relevance == scores[c]
        max_sim == IF Len(selected) > 0
                   THEN Max({Similarity(pattern, c, selected[i]) : i \in 1..Len(selected)})
                   ELSE 0
    IN lambda * relevance - (10 - lambda) * max_sim

\* lines 284-290: the first selection
MmrFirstPick(scores) ==
    LET first == ArgMax(scores)
        all == Arange(Len(scores))
    IN [selected |-> <<first>>,
        candidates |-> DeleteAt(all, PositionOf(all, first))]

\* lines 293-314: one iteration of the while loop
MmrIteration(selected, candidates, scores, pattern, lambda) ==
    LET mmr_scores == [i \in 1..Len(candidates) |->
                          MmrScore(candidates[i], selected, scores, pattern, lambda)]
        best_idx == ArgMax(mmr_scores)
        best_candidate == candidates[best_idx]
    IN [selected |-> Append(selected, best_candidate),
        candidates |-> DeleteAt(candidates, best_idx)]

\* the loop runs until the candidates are used up
MmrContinuesToExhaustion(selected, candidates, k) ==
    Len(candidates) > 0

\* line 292: while len(selected) < topk and len(candidates) > 0
MmrContinues(selected, candidates, k) ==
    Len(selected) < k /\ Len(candidates) > 0

\* the k the recommend operation hands to the diversifier
\* (topk in the club and gened recommenders, min(topk, len(df_eligible)) in
\* the technical one)
DiversifierK(domain, topk, n) ==
    IF domain = "technical" THEN (IF topk < n THEN topk ELSE n) ELSE topk

HeadOffByOne(seq, n) ==
    IF n >= 0
    THEN SubSeq(seq, 1, IF n + 1 < Len(seq) THEN n + 1 ELSE Len(seq))
    ELSE SubSeq(seq, 1, IF Len(seq) + n > 0 THEN Len(seq) + n ELSE 0)

\* DataFrame.head(n)
DataFrameHead(seq, n) ==
    IF n >= 0
    THEN SubSeq(seq, 1, IF n < Len(seq) THEN n ELSE Len(seq))
    ELSE SubSeq(seq, 1, IF Len(seq) + n > 0 THEN Len(seq) + n ELSE 0)

Rearrangements(seq) ==
    {q \in [1..Len(seq) -> {seq[i] : i \in 1..Len(seq)}] :
        \A i \in 1..Len(seq) :
            Cardinality({j \in 1..Len(seq) : q[j] = seq[i]})
                = Cardinality({j \in 1..Len(seq) : seq[j] = seq[i]})}

SortedAscending(seq, scores) ==
    {q \in Rearrangements(seq) :
        \A i \in 1..(Len(q) - 1) : scores[q[i]] <= scores[q[i + 1]]}

\* sort_values(ascending=False): the order among equal scores is left to
\* the sorting routine
SortedDescending(seq, scores) ==
    {q \in Rearrangements(seq) :
        \A i \in 1..(Len(q) - 1) : scores[q[i]] >= scores[q[i + 1]]}

ScoreVectors == UNION {[1..n -> ScoreValues] : n \in 1..MaxN}

MmInit ==
    /\ mm_pc = "start"
    /\ mm_scores \in ScoreVectors
    /\ mm_pattern \in SimPatterns
    /\ mm_lambda \in LambdaValues
    /\ mm_topk \in (-1)..MaxTopK
    /\ mm_domain \in Domains
    /\ mm_selected = <<>>
    /\ mm_candidates = <<>>
    /\ mm_result = <<>>

MmIdle ==
    /\ mm_pc = "idle"
    /\ mm_scores = <<>>
    /\ mm_pattern = "distinct"
    /\ mm_lambda = 0
    /\ mm_topk = 0
    /\ mm_domain = "club"
    /\ mm_selected = <<>>
    /\ mm_candidates = <<>>
    /\ mm_result = <<>>

mm_k == DiversifierK(mm_domain, mm_topk, Len(mm_scores))

\* entry of the diversifier up to the loop
MmrFirst ==
    /\ mm_pc = "start"
    /\ LET r == MmrFirstPick(mm_scores)
       IN /\ mm_selected' = r.selected
          /\ mm_candidates' = r.candidates
    /\ mm_pc' = "loop"
    /\ UNCHANGED <<mm_scores, mm_pattern, mm_lambda, mm_topk, mm_domain, mm_result>>

\* one pass through the while loop
MmrIterate ==
    /\ mm_pc = "loop"
    /\ MmrContinues(mm_selected, mm_candidates, mm_k)
    /\ LET r == MmrIteration(mm_selected, mm_candidates, mm_scores,
                             mm_pattern, mm_lambda)
       IN /\ mm_selected' = r.selected
          /\ mm_candidates' = r.candidates
    /\ UNCHANGED <<mm_pc, mm_scores, mm_pattern, mm_lambda, mm_topk, mm_domain,
                   mm_result>>

\* the loop ends and the diversifier returns selected
MmrReturn ==
    /\ mm_pc = "loop"
    /\ ~MmrContinues(mm_selected, mm_candidates, mm_k)
    /\ mm_pc' = "returned"
    /\ UNCHANGED <<mm_scores, mm_pattern, mm_lambda, mm_topk, mm_domain,
                   mm_selected, mm_candidates, mm_result>>

\* the recommend operation sorts the selected rows by score and keeps head(topk)
RecommendTail ==
    /\ mm_pc = "returned"
    /\ \E sorted \in SortedDescending(mm_selected, mm_scores) :
          mm_result' = DataFrameHead(sorted, mm_topk)
    /\ mm_pc' = "done"
    /\ UNCHANGED <<mm_scores, mm_pattern, mm_lambda, mm_topk, mm_domain,
                   mm_selected, mm_candidates>>

-----------------------------------------------------------------------------
(* Claims about the diversifier and the returned ranking                   *)

NoDuplicates(seq) ==
    \A i, j \in 1..Len(seq) : i # j => seq[i] # seq[j]

Elements(seq) == {seq[i] : i \in 1..Len(seq)}

\* the place of index i when the indices are ordered by score, highest
\* first, equal scores by lower index first
RelevanceRank(scores, i) ==
    1 + Cardinality({j \in 1..Len(scores) :
                        scores[j] > scores[i] \/ (scores[j] = scores[i] /\ j < i)})

\* the min(k, n) first indices in that order (none when k <= 0)
TopKByRelevance(scores, k) ==
    LET m == IF k <= 0 THEN 0 ELSE IF k < Len(scores) THEN k ELSE Len(scores)
    IN [p \in 1..m |-> CHOOSE i \in 1..Len(scores) : RelevanceRank(scores, i) = p]

\* C3: for every score vector, every requested k and every lambda the index
\* list of the diversifier holds no index twice, and neither does the
\* ranking built from it.
C3_NoDuplicateIndices ==
    NoDuplicates(mm_selected) /\ NoDuplicates(mm_result)

C3_Witness ==
    /\ mm_pc = "returned"
    /\ Len(mm_selected) = 3
    /\ mm_pattern = "identical"
    /\ mm_lambda = 7
    /\ mm_scores[1] = mm_scores[2]

\* C4: for every non-empty score vector and every requested k >= 0 the
\* diversifier returns at most k indices.
C4_AtMostK ==
    (mm_pc = "returned" /\ mm_k >= 0) => Len(mm_selected) <= mm_k

\* C5: with lambda = 1 the diversifier returns the min(k, n) highest-scoring
\* indices in non-increasing score order, equal scores by lower index first,
\* whatever the pairwise similarities are.
C5_LambdaOneTopK ==
    (mm_pc = "returned" /\ mm_lambda = 10)
        => mm_selected = TopKByRelevance(mm_scores, mm_k)

\* the same for k >= 1 only
LambdaOneTopKFromOne ==
    (mm_pc = "returned" /\ mm_lambda = 10 /\ mm_k >= 1)
        => mm_selected = TopKByRelevance(mm_scores, mm_k)

\* C8: for topk >= 1 the list a recommend operation returns has at most topk
\* members, is sorted by non-increasing score, and its members are exactly
\* the records the diversifier selected.
C8_RankingSortedAndBounded ==
    (mm_pc = "done" /\ mm_topk >= 1) =>
        /\ Len(mm_result) <= mm_topk
        /\ \A i \in 1..(Len(mm_result) - 1) :
              mm_scores[mm_result[i]] >= mm_scores[mm_result[i + 1]]
        /\ Elements(mm_result) = Elements(mm_selected)
        /\ Len(mm_result) = Len(mm_selected)

\* the diversifier picked a lower-scoring record before a higher-scoring one
C8_Witness ==
    /\ mm_pc = "done"
    /\ mm_topk >= 1
    /\ Len(mm_result) = 3
    /\ mm_result # mm_selected
    /\ mm_scores[mm_result[2]] > mm_scores[mm_result[3]]

\* the value the rule gives candidate c against the indices picked so far:
\* lambda * score(c) - (1 - lambda) * the largest similarity to a picked
\* index (no diversity term while nothing is picked)
RuleValue(c, picked) ==
    mm_lambda * mm_scores[c]
        - (IF picked = {} THEN 0
           ELSE (10 - mm_lambda) * Max({Similarity(mm_pattern, c, s) : s \in picked}))

\* the lowest remaining index whose value is maximal
RulePick(picked) ==
    LET remaining == (1..Len(mm_scores)) \ picked
    IN Min({c \in remaining :
               \A other \in remaining :
                   IF picked = {} THEN mm_scores[c] >= mm_scores[other]
                   ELSE RuleValue(c, picked) >= RuleValue(other, picked)})

\* C24: the first index selected is the lowest index with maximal score,
\* and every later one is the lowest remaining index maximizing
\* lambda * score(c) - (1 - lambda) * max similarity to the indices selected
\* before it, so the selection is a function of scores, similarities, k and
\* lambda.
C24_SelectionRule ==
    \A j \in 1..Len(mm_selected) :
        mm_selected[j] = RulePick({mm_selected[i] : i \in 1..(j - 1)})

\* three picks where both the tie rule and the diversity term decide: all
\* scores are equal, so the first pick is the first record, and the second
\* pick is the third record, which is less similar to the first
C24_Witness ==
    /\ mm_pc = "returned"
    /\ mm_scores = <<4000, 4000, 4000>>
    /\ mm_pattern = "neighbours"
    /\ mm_lambda = 7
    /\ mm_selected = <<1, 3, 2>>

\* min(k, n)
MinOf(a, b) == IF a < b THEN a ELSE b

\* selected and candidates share no index and together hold every index
SelectedAndCandidatesPartition ==
    /\ NoDuplicates(mm_selected) /\ NoDuplicates(mm_candidates)
    /\ Elements(mm_selected) \cap Elements(mm_candidates) = {}
    /\ Elements(mm_selected) \cup Elements(mm_candidates) = 1..Len(mm_scores)

\* a pass through the loop moves exactly one index from candidates to selected
MovesOneIndex ==
    (mm_pc = "loop" /\ mm_pc' = "loop") =>
        \E c \in Elements(mm_candidates) :
            /\ mm_selected' = Append(mm_selected, c)
            /\ Elements(mm_candidates') = Elements(mm_candidates) \ {c}
            /\ Len(mm_candidates') = Len(mm_candidates) - 1

\* C25: for every non-empty score vector and every k >= 1 the selection
\* loop terminates; each iteration moves exactly one index from the
\* candidates to the selected list, the two stay disjoint and together cover
\* all indices, and the loop ends with exactly min(k, n) selected indices.
C25_LoopTerminates ==
    /\ [](mm_pc \in {"loop", "returned", "done"} => SelectedAndCandidatesPartition)
    /\ [][MovesOneIndex]_vars
    /\ []((mm_pc = "returned" /\ mm_k >= 1)
              => Len(mm_selected) = MinOf(mm_k, Len(mm_scores)))
    /\ ((mm_pc = "start" /\ mm_k >= 1) ~> (mm_pc = "returned"))

\* the loop ended by running out of candidates, k being larger than n
C25_Witness ==
    /\ mm_pc = "returned"
    /\ mm_domain = "club"
    /\ mm_k = 3
    /\ Len(mm_scores) = 2
    /\ Len(mm_selected) = 2
    /\ mm_candidates = <<>>

-----------------------------------------------------------------------------
(* Lazy corpus load of the club and gened recommenders, called from        *)
(* several request threads on one recommender object                       *)

NumThreads == 2
Threads == 1..NumThreads
Kinds == {"club", "gened"}

LdInit ==
    /\ ld_kind \in Kinds
    /\ ld_file_ok \in BOOLEAN
    /\ ld_fit_ok \in BOOLEAN
    /\ ld_tags_ok \in BOOLEAN
    /\ ld_pc = [t \in Threads |-> "ready"]
    /\ ld_df = "None"
    /\ ld_tags = "None"
    /\ ld_vocab = "None"
    /\ ld_vectorizer = 0
    /\ ld_fitted = [t \in Threads |-> FALSE]
    /\ ld_X = 0
    /\ ld_local = [t \in Threads |-> 0]
    /\ ld_reads = 0
    /\ ld_fits = 0

LdIdle ==
    /\ ld_kind = "club"
    /\ ld_file_ok = TRUE
    /\ ld_fit_ok = TRUE
    /\ ld_tags_ok = TRUE
    /\ ld_pc = [t \in Threads |-> "idle"]
    /\ ld_df = "None"
    /\ ld_tags = "None"
    /\ ld_vocab = "None"
    /\ ld_vectorizer = 0
    /\ ld_fitted = [t \in Threads |-> FALSE]
    /\ ld_X = 0
    /\ ld_local = [t \in Threads |-> 0]
    /\ ld_reads = 0
    /\ ld_fits = 0

ld_inputs == <<ld_kind, ld_file_ok, ld_fit_ok, ld_tags_ok>>

GoTo(t, label) == ld_pc' = [ld_pc EXCEPT ![t] = label]

\* _load_tag_categories (club_recommender.py 54-66): a failed read is
\* swallowed and leaves an empty table
TagsAfterLoad ==
    IF ld_tags = "None" THEN (IF ld_tags_ok THEN "loaded" ELSE "empty")
    ELSE ld_tags

\* `if self._clubs_df is None:` / `if self._courses_df is None:`
LoadCheck(t) ==
    /\ ld_pc[t] = "ready"
    /\ GoTo(t, IF ld_df = "None" THEN "read" ELSE "score")
    /\ UNCHANGED <<ld_inputs, ld_df, ld_tags, ld_vocab, ld_vectorizer,
                   ld_fitted, ld_X, ld_local, ld_reads, ld_fits>>

\* pd.read_csv and the preparation of the frame, up to the assignment
ReadCsv(t) ==
    /\ ld_pc[t] = "read"
    /\ IF ld_file_ok
       THEN /\ ld_reads' = ld_reads + 1
            /\ GoTo(t, "assign")
       ELSE /\ GoTo(t, "raised")
            /\ UNCHANGED ld_reads
    /\ UNCHANGED <<ld_inputs, ld_df, ld_tags, ld_vocab, ld_vectorizer,
                   ld_fitted, ld_X, ld_local, ld_fits>>

\* self._clubs_df = df / self._courses_df = df
AssignFrame(t) ==
    /\ ld_pc[t] = "assign"
    /\ ld_df' = "loaded"
    /\ GoTo(t, "vocab")
    /\ UNCHANGED <<ld_inputs, ld_tags, ld_vocab, ld_vectorizer,
                   ld_fitted, ld_X, ld_local, ld_reads, ld_fits>>

\* self._vocab = self._build_vocab(); the club one loads the tag table
BuildVocab(t) ==
    /\ ld_pc[t] = "vocab"
    /\ ld_tags' = IF ld_kind = "club" THEN TagsAfterLoad ELSE ld_tags
    /\ ld_vocab' = "built"
    /\ GoTo(t, "vectorizer")
    /\ UNCHANGED <<ld_inputs, ld_df, ld_vectorizer, ld_fitted, ld_X,
                   ld_local, ld_reads, ld_fits>>

\* self._vectorizer = TfidfVectorizer(...): a new, unfitted object
NewVectorizer(t) ==
    /\ ld_pc[t] = "vectorizer"
    /\ ld_vectorizer' = t
    /\ ld_fitted' = [ld_fitted EXCEPT ![t] = FALSE]
    /\ GoTo(t, "fit")
    /\ UNCHANGED <<ld_inputs, ld_df, ld_tags, ld_vocab, ld_X, ld_local,
                   ld_reads, ld_fits>>

\* self._vectorizer.fit_transform(corpus), on the object the attribute
\* holds at that moment
FitTransform(t) ==
    /\ ld_pc[t] = "fit"
    /\ IF ld_fit_ok
       THEN /\ ld_fitted' = [ld_fitted EXCEPT ![ld_vectorizer] = TRUE]
            /\ ld_local' = [ld_local EXCEPT ![t] = ld_vectorizer]
            /\ ld_fits' = ld_fits + 1
            /\ GoTo(t, "store")
       ELSE /\ GoTo(t, "raised")
            /\ UNCHANGED <<ld_fitted, ld_local, ld_fits>>
    /\ UNCHANGED <<ld_inputs, ld_df, ld_tags, ld_vocab, ld_vectorizer, ld_X,
                   ld_reads>>

\* self._X_tfidf = <the matrix just computed>
StoreMatrix(t) ==
    /\ ld_pc[t] = "store"
    /\ ld_X' = ld_local[t]
    /\ GoTo(t, "score")
    /\ UNCHANGED <<ld_inputs, ld_df, ld_tags, ld_vocab, ld_vectorizer,
                   ld_fitted, ld_local, ld_reads, ld_fits>>

\* the rest of the request: self._vectorizer.transform and the similarity
\* against self._X_tfidf
Score(t) ==
    /\ ld_pc[t] = "score"
    /\ ld_tags' = IF ld_kind = "club" THEN TagsAfterLoad ELSE ld_tags
    /\ GoTo(t, IF /\ ld_vocab # "None"
                  /\ ld_vectorizer # 0
                  /\ ld_fitted[IF ld_vectorizer = 0 THEN t ELSE ld_vectorizer]
                  /\ ld_X # 0
               THEN "returned" ELSE "raised")
    /\ UNCHANGED <<ld_inputs, ld_df, ld_vocab, ld_vectorizer, ld_fitted, ld_X,
                   ld_local, ld_reads, ld_fits>>

\* the thread serves its next request
NextRequest(t) ==
    /\ ld_pc[t] \in {"returned", "raised"}
    /\ GoTo(t, "ready")
    /\ UNCHANGED <<ld_inputs, ld_df, ld_tags, ld_vocab, ld_vectorizer,
                   ld_fitted, ld_X, ld_local, ld_reads, ld_fits>>

\* C6: when requests make the first call on one club or gened recommender
\* concurrently, the corpus load and TF-IDF fit run at most once.
C6_BuildAtMostOnce ==
    ld_fits <= 1

\* C16: a corpus or tag-table load failure is never converted into empty
\* data: no request returns a ranking scored against an empty or missing
\* table.
C16_LoadFailureSurfaced ==
    \A t \in Threads :
        ld_pc[t] = "returned" => ld_df = "loaded" /\ ld_tags # "empty"

\* C23: a request that got past the lazy-load check scores its query with
\* a vectorizer that is present and fitted and with the matrix that the same
\* fit produced, whatever the interleaving of first requests and whether or
\* not an earlier build failed part-way.
C23_VectorizerMatrixPair ==
    \A t \in Threads :
        ld_pc[t] = "score" =>
            /\ ld_vectorizer # 0
            /\ ld_fitted[ld_vectorizer]
            /\ ld_X = ld_vectorizer

-----------------------------------------------------------------------------
(* technical_recommender.TechnicalRecommender.recommend_courses and        *)
(* recommender.Recommender.recommend_courses, one request each.            *)
(* Row labels and matrix positions are 0-based as in the code; interest    *)
(* scores are in tenths, boosts in thousandths, final scores in            *)
(* ten-thousandths.                                                        *)

CS498_nbsp == <<"C", "S", NBSP, "4", "9", "8">>
cs225_lower == <<"c", "s", " ", "2", "2", "5">>
cs225_padded == <<" ", "c", "s", " ", "2", "2", "5", " ">>
cs357_lower == <<"c", "s", " ", "3", "5", "7">>
CS357_tight == <<"C", "S", "3", "5", "7">>
CS357_padded == <<" ", "C", "S", " ", "3", "5", "7", " ">>
cs498_lower == <<"c", "s", " ", "4", "9", "8">>

\* the number of leading characters of s that lie in set
LeadingCount(s, set) ==
    Max({i \in 0..Len(s) : \A j \in 1..i : s[j] \in set})

DigitValue(c) ==
    CASE c = "0" -> 0 [] c = "1" -> 1 [] c = "2" -> 2 [] c = "3" -> 3
      [] c = "4" -> 4 [] c = "5" -> 5 [] c = "6" -> 6 [] c = "7" -> 7
      [] c = "8" -> 8 [] c = "9" -> 9

\* int(num_str)
RECURSIVE IntOf(_)
IntOf(d) ==
    IF d = <<>> THEN 0
    ELSE 10 * IntOf(SubSeq(d, 1, Len(d) - 1)) + DigitValue(d[Len(d)])

\* .str.replace('\xa0', ' ', regex=False)
ReplaceNbsp(s) == [i \in 1..Len(s) |-> IF s[i] = NBSP THEN " " ELSE s[i]]

\* _load_course_data: df['course_code']
course_code_of(course_id) == Strip(ReplaceNbsp(course_id))

\* _load_course_data: df['level'], from .str.extract(r'^([A-Z]+)\s+(\d+)$')
level_of(course_code) ==
    LET n == LeadingCount(course_code, UpperLetters)
        rest == SubSeq(course_code, n + 1, Len(course_code))
        w == LeadingCount(rest, WS)
        number == SubSeq(rest, w + 1, Len(rest))
    IN IF /\ n >= 1
          /\ w >= 1
          /\ Len(number) >= 1
          /\ \A i \in 1..Len(number) : number[i] \in Digits
       THEN (IF IntOf(number) >= 400 THEN "advanced"
             ELSE IF IntOf(number) >= 200 THEN "intermediate"
             ELSE "introductory")
       ELSE "unknown"

\* _get_course_level: re.match(r'[A-Z]{2,4}\s*(\d)(\d{2})', code.upper())
get_course_level(course_code) ==
    LET u == Upper(course_code)
        n == LeadingCount(u, UpperLetters)
        rest == SubSeq(u, n + 1, Len(u))
        w == LeadingCount(rest, WS)
        d == SubSeq(rest, w + 1, Len(rest))
    IN IF /\ Len(course_code) > 0
          /\ n >= 2
          /\ n <= 4
          /\ Len(d) >= 3
          /\ \A i \in 1..3 : d[i] \in Digits
       THEN DigitValue(d[1])
       ELSE 5

\* dict.get(key, default)
DictGet(dict, key, default) ==
    IF key \in DOMAIN dict THEN dict[key] ELSE default

\* majors_structured.json; the three flags of a group are the keyword tests
\* _extract_technical_courses makes on its lowercased group_name
MajorsData ==
    ("Computer Science" :>
        [requirement_groups |-> <<
            [is_technical |-> TRUE, is_elective |-> FALSE, is_area |-> FALSE,
             courses |-> <<[code |-> cs124_tight, required |-> "absent"]>>,
             course_codes |-> <<CS225, CS357_tight, CS374, CS421>>],
            [is_technical |-> FALSE, is_elective |-> TRUE, is_area |-> FALSE,
             courses |-> <<>>,
             course_codes |-> <<cs498_lower>>],
            [is_technical |-> FALSE, is_elective |-> FALSE, is_area |-> FALSE,
             courses |-> <<[code |-> MATH221, required |-> "absent"]>>,
             course_codes |-> <<PHYS211>>]>>])

\* prerequisite_graph.json and postrequisite_graph.json
prereq_graph ==
    (CS225 :> <<PyStr(CS124), PyStr(CS173)>>) @@ (CS421 :> <<PyStr(CS374)>>)
postreq_graph ==
    (CS124 :> <<CS128, CS173, CS225, CS233, CS341, CS357>>)
        @@ (CS225 :> <<CS374, CS421>>)

\* _extract_technical_courses
extract_technical_courses(major_data) ==
    LET groups == major_data.requirement_groups
        G == 1..Len(groups)
        DictCodes(g, Keep(_, _)) ==
            {normalize_course_code(g.courses[i].code) :
                i \in {j \in 1..Len(g.courses) : Keep(g, g.courses[j])}}
        ListCodes(g) ==
            {normalize_course_code(g.course_codes[i]) : i \in 1..Len(g.course_codes)}
        IsArea(g, c) == g.is_area
        IsElective(g, c) ==
            ~g.is_area /\ (g.is_elective \/ c.required = "False")
        IsRequired(g, c) ==
            /\ ~g.is_area
            /\ ~(g.is_elective \/ c.required = "False")
            /\ (g.is_technical \/ c.required = "True")
    IN [areas |->
            UNION {DictCodes(groups[i], IsArea) : i \in G}
            \cup UNION {ListCodes(groups[i]) : i \in {j \in G : groups[j].is_area}},
        electives |->
            UNION {DictCodes(groups[i], IsElective) : i \in G}
            \cup UNION {ListCodes(groups[i]) :
                          i \in {j \in G : ~groups[j].is_area /\ groups[j].is_elective}},
        required |->
            UNION {DictCodes(groups[i], IsRequired) : i \in G}
            \cup UNION {ListCodes(groups[i]) :
                          i \in {j \in G : /\ ~groups[j].is_area
                                           /\ ~groups[j].is_elective
                                           /\ groups[j].is_technical}}]

\* the elements of seq at the positions idxs
Pick(seq, idxs) == [i \in 1..Len(idxs) |-> seq[idxs[i]]]

\* _create_technical_course_dataframe: the rows of the course table whose
\* course_code is in technical_courses, under their labels in that table
create_technical_course_dataframe(technical_courses, corpus) ==
    LET table == [i \in 1..Len(corpus) |->
                     [label |-> i - 1,
                      code |-> course_code_of(corpus[i]),
                      level |-> level_of(course_code_of(corpus[i])),
                      prereq_count |->
                          Len(DictGet(prereq_graph, course_code_of(corpus[i]), <<>>)),
                      postreq_count |->
                          Len(DictGet(postreq_graph, course_code_of(corpus[i]), <<>>))]]
        isin == SelectSeq(Arange(Len(table)),
                          LAMBDA i : table[i].code \in technical_courses)
    IN Pick(table, isin)

\* TfidfVectorizer(max_df=0.7, min_df=2).fit_transform(corpus): with fewer
\* than three documents max_df covers fewer documents than min_df and the
\* fit raises; with more it raises when no term is left after pruning
FitOutcomes(n_docs) ==
    IF 7 * n_docs < 2 * 10 THEN {"ValueError"} ELSE {"fitted", "ValueError"}

RawCodes(codes) == codes

\* [normalize_course_code(c) for c in ...]
NormalizedCodes(codes) == {normalize_course_code(c) : c \in codes}

\* _get_eligible_courses
get_eligible_courses(candidate_courses, courses_completed, courses_in_progress) ==
    LET completed_or_in_progress == courses_completed \cup courses_in_progress
    IN SelectSeq(candidate_courses,
                 LAMBDA course :
                     can_take_course(course, completed_or_in_progress,
                                     DictGet(prereq_graph, course, <<>>)).met)

year_to_level == [freshman |-> 1, sophomore |-> 2, junior |-> 3, senior |-> 4]

\* year_to_level.get(student_year, 2) + 1
max_level_allowed(student_year) == DictGet(year_to_level, student_year, 2) + 1

\* _calculate_rule_based_boost, in thousandths
calculate_rule_based_boost(course_row, student_year, prefer_foundational, prefer_advanced) ==
    LET b1 == IF prefer_foundational /\ course_row.postreq_count > 5
              THEN (1000 * 12) \div 10 ELSE 1000
        b2 == IF prefer_advanced /\ course_row.level = "advanced"
              THEN (b1 * 13) \div 10 ELSE b1
        course_level == get_course_level(course_row.code)
        expected_level == DictGet(year_to_level, student_year, 2)
    IN IF course_level = expected_level \/ course_level = expected_level + 1
       THEN (b2 * 11) \div 10
       ELSE IF course_level > expected_level + 1
       THEN (b2 * 7) \div 10
       ELSE IF student_year \in {"junior", "senior"} /\ course_level <= 1
       THEN (b2 * 8) \div 10
       ELSE b2

\* _mmr_diversify, the whole loop
RECURSIVE MmrLoop(_, _, _, _, _)
MmrLoop(state, scores, pattern, lambda, k) ==
    IF MmrContinues(state.selected, state.candidates, k)
    THEN MmrLoop(MmrIteration(state.selected, state.candidates, scores,
                              pattern, lambda),
                 scores, pattern, lambda, k)
    ELSE state.selected

mmr_diversify(scores, pattern, topk, lambda) ==
    MmrLoop(MmrFirstPick(scores), scores, pattern, lambda, topk)

MaxCorpus == 4
MaxTaken == 2
MaxRecommendations == 2
\* all_courses.csv holds some of these rows, in this order
CourseTable ==
    <<CS124, cs225_lower, CS225, CS357_padded, CS374_tight, CS498_nbsp, CS421>>
TakenPool == {cs124_tight, cs225_padded, cs357_lower, CS341, cs421_tight, CS374}
InProgressPool == {cs498_lower}
RequestMajors == {"Computer Science", "Astrology"}
InterestValues == {0, 4, 8}
DefaultLambda == 7

\* the elements of a set of numbers, ascending
Ascending(S) ==
    [i \in 1..Cardinality(S) |->
        CHOOSE x \in S : Cardinality({y \in S : y < x}) = i - 1]

Corpora ==
    {Pick(CourseTable, Ascending(S)) :
        S \in {T \in SUBSET (1..Len(CourseTable)) : Cardinality(T) <= MaxCorpus}}

NoRows == <<>>

TcInit ==
    /\ tc_pc = "start"
    /\ tc_corpus = <<>>
    /\ tc_completed \in {S \in SUBSET TakenPool : Cardinality(S) <= MaxTaken}
    /\ tc_in_progress = {}
    /\ tc_major = "None"
    /\ tc_error = "None"
    /\ tc_year = "None"
    /\ tc_courses_df = NoRows
    /\ tc_eligible = <<>>
    /\ tc_level_filtered = <<>>
    /\ tc_df_eligible = NoRows
    /\ tc_interest_scores = <<>>
    /\ tc_rule_boosts = <<>>
    /\ tc_topk = 0
    /\ tc_result = <<>>
    /\ rb_result = [recommendations |-> <<>>, completed |-> 0, total |-> 0]

TcIdle ==
    /\ tc_pc = "idle"
    /\ tc_corpus = <<>>
    /\ tc_completed = {}
    /\ tc_in_progress = {}
    /\ tc_major = "None"
    /\ tc_error = "None"
    /\ tc_year = "None"
    /\ tc_courses_df = NoRows
    /\ tc_eligible = <<>>
    /\ tc_level_filtered = <<>>
    /\ tc_df_eligible = NoRows
    /\ tc_interest_scores = <<>>
    /\ tc_rule_boosts = <<>>
    /\ tc_topk = 0
    /\ tc_result = <<>>
    /\ rb_result = [recommendations |-> <<>>, completed |-> 0, total |-> 0]

\* lines 343-371: the request is normalized, the data loaded (all_courses.csv
\* is read into the cached course table), the major looked up and its
\* course table built
TechLookup ==
    /\ tc_pc = "start"
    /\ \E major_name \in RequestMajors, courses_in_progress \in SUBSET InProgressPool,
          corpus \in Corpora :
         /\ tc_major' = major_name
         /\ tc_in_progress' = courses_in_progress
         /\ tc_corpus' = corpus
         /\ IF major_name \notin DOMAIN MajorsData
            THEN /\ tc_pc' = "raised"
                 /\ tc_error' = "ValueError"
                 /\ UNCHANGED tc_courses_df
            ELSE LET tech_courses == extract_technical_courses(MajorsData[major_name])
                     all_technical == tech_courses.required \cup tech_courses.electives
                                          \cup tech_courses.areas
                     courses_df == create_technical_course_dataframe(all_technical,
                                                                     corpus)
                 IN /\ tc_courses_df' = courses_df
                    /\ tc_pc' = IF Len(courses_df) = 0 THEN "done" ELSE "fit"
                    /\ UNCHANGED tc_error
    /\ UNCHANGED <<tc_completed, tc_year, tc_eligible, tc_level_filtered,
                   tc_df_eligible, tc_interest_scores, tc_rule_boosts, tc_topk,
                   tc_result, rb_result>>

\* lines 373-419: the TF-IDF fit, then the already-taken, prerequisite and
\* level filters
TechFilter ==
    /\ tc_pc = "fit"
    /\ \E fit \in FitOutcomes(Len(tc_courses_df)) :
         IF fit = "ValueError"
         THEN /\ tc_pc' = "raised"
              /\ tc_error' = "ValueError"
              /\ UNCHANGED <<tc_year, tc_eligible, tc_level_filtered, tc_df_eligible>>
         ELSE \E completed_courses \in {NormalizedCodes(tc_completed)},
                 courses_in_progress \in {NormalizedCodes(tc_in_progress)} :
              \E student_year \in {detect_student_year(completed_courses)} :
              LET all_courses == [i \in 1..Len(tc_courses_df) |-> tc_courses_df[i].code]
                  already_taken == completed_courses \cup courses_in_progress
                  candidate_courses ==
                      SelectSeq(all_courses, LAMBDA c : c \notin already_taken)
              IN \E eligible_courses \in
                        {get_eligible_courses(candidate_courses, completed_courses,
                                              courses_in_progress)} :
                 \E level_filtered \in
                        {SelectSeq(eligible_courses,
                                   LAMBDA course :
                                       get_course_level(course)
                                           <= max_level_allowed(student_year))} :
                 LET in_level == {level_filtered[i] : i \in 1..Len(level_filtered)}
                     df_eligible ==
                         SelectSeq(tc_courses_df, LAMBDA row : row.code \in in_level)
                 IN /\ tc_year' = student_year
                    /\ tc_eligible' = eligible_courses
                    /\ tc_level_filtered' = level_filtered
                    /\ tc_df_eligible' = df_eligible
                    /\ tc_pc' = IF Len(df_eligible) = 0 THEN "done" ELSE "filtered"
                    /\ UNCHANGED tc_error
    /\ UNCHANGED <<tc_corpus, tc_completed, tc_in_progress, tc_major, tc_courses_df,
                   tc_interest_scores, tc_rule_boosts, tc_topk, tc_result, rb_result>>

\* lines 422-459: X_tfidf[eligible_indices] takes the row labels as matrix
\* positions; then interest scores, rule boosts and the non-zero mask
TechScore ==
    /\ tc_pc = "filtered"
    /\ LET n == Len(tc_df_eligible)
       IN IF \E i \in 1..n : tc_df_eligible[i].label >= Len(tc_courses_df)
          THEN /\ tc_pc' = "raised"
               /\ tc_error' = "IndexError"
               /\ UNCHANGED <<tc_df_eligible, tc_interest_scores, tc_rule_boosts>>
          ELSE \E interests \in BOOLEAN, prefer_foundational \in BOOLEAN,
                  prefer_advanced \in BOOLEAN :
               \E interest_scores \in
                      (IF interests THEN [1..n -> InterestValues]
                       ELSE {[i \in 1..n |-> 1]}) :
                 LET rule_boosts ==
                         [i \in 1..n |->
                             calculate_rule_based_boost(tc_df_eligible[i], tc_year,
                                                        prefer_foundational,
                                                        prefer_advanced)]
                     masked == interests /\ \E i \in 1..n : interest_scores[i] > 0
                     keep == IF masked
                             THEN SelectSeq(Arange(n), LAMBDA i : interest_scores[i] > 0)
                             ELSE Arange(n)
                 IN /\ tc_df_eligible' = Pick(tc_df_eligible, keep)
                    /\ tc_interest_scores' = Pick(interest_scores, keep)
                    /\ tc_rule_boosts' = Pick(rule_boosts, keep)
                    /\ tc_pc' = "scored"
                    /\ UNCHANGED tc_error
    /\ UNCHANGED <<tc_corpus, tc_completed, tc_in_progress, tc_major, tc_year, tc_courses_df, tc_eligible,
                   tc_level_filtered, tc_topk, tc_result, rb_result>>

\* lines 461-490: MMR over the boosted scores, sort and head(topk)
TechRank ==
    /\ tc_pc = "scored"
    /\ \E topk \in (-1)..MaxTopK, pattern \in SimPatterns :
         LET n == Len(tc_df_eligible)
             boosted_scores ==
                 [i \in 1..n |-> tc_interest_scores[i] * tc_rule_boosts[i]]
             top_indices ==
                 mmr_diversify(boosted_scores, pattern,
                               DiversifierK("technical", topk, n), DefaultLambda)
         IN /\ tc_topk' = topk
            /\ \E sorted \in SortedDescending(top_indices, boosted_scores) :
                 tc_result' =
                     [i \in 1..Len(DataFrameHead(sorted, topk)) |->
                         [course_code |-> tc_df_eligible[sorted[i]].code,
                          final_score |-> boosted_scores[sorted[i]]]]
    /\ tc_pc' = "done"
    /\ UNCHANGED <<tc_corpus, tc_completed, tc_in_progress, tc_major, tc_error, tc_year, tc_courses_df,
                   tc_eligible, tc_level_filtered, tc_df_eligible,
                   tc_interest_scores, tc_rule_boosts, rb_result>>

\* major_requirements.json, as data_loader.get_major returns it; a group's
\* flag is the keyword test recommend_courses makes on its group_name
MajorRequirements ==
    ("Computer Science" :>
        [requirement_groups |-> <<
            [is_required_group |-> TRUE,
             courses |-> <<
                [course_code |-> cs124_tight,
                 prerequisites |-> <<>>,
                 postrequisites |-> <<CS128, CS173, CS225, CS233, CS341, CS357>>],
                [course_code |-> CS225,
                 prerequisites |-> <<PyStr(CS124_or_CS125)>>,
                 postrequisites |-> <<CS374, CS421>>],
                [course_code |-> CS421,
                 prerequisites |-> <<>>,
                 postrequisites |-> <<>>]>>],
            [is_required_group |-> FALSE,
             courses |-> <<
                [course_code |-> CS357_tight,
                 prerequisites |-> <<>>,
                 postrequisites |-> <<>>],
                [course_code |-> cs498_lower,
                 prerequisites |-> <<>>,
                 postrequisites |-> <<>>]>>]>>])

\* sample_sequences.json, as data_loader.get_sample_sequence returns it
SampleSequences ==
    ("Computer Science" :>
        (("first_year" :> [fall |-> <<CS124>>, spring |-> <<CS128>>])
            @@ ("second_year" :> [fall |-> <<CS225>>, spring |-> <<cs357_lower>>])))

\* year_detector.get_semester_from_course
get_semester_from_course(course_code, student_year, sample_sequence) ==
    IF student_year \notin DOMAIN sample_sequence THEN "None"
    ELSE LET year_data == sample_sequence[student_year]
             normalized_code == normalize_course_code(course_code)
             In(courses) ==
                 \E i \in 1..Len(courses) :
                     normalize_course_code(courses[i]) = normalized_code
         IN IF In(year_data.fall) THEN "fall"
            ELSE IF In(year_data.spring) THEN "spring"
            ELSE "None"

\* year_detector.is_in_sample_sequence
is_in_sample_sequence(course_code, student_year, sample_sequence) ==
    IF student_year \notin DOMAIN sample_sequence THEN FALSE
    ELSE LET year_data == sample_sequence[student_year]
             normalized_code == normalize_course_code(course_code)
         IN \E sem \in {"fall", "spring"} :
                \E i \in 1..Len(year_data[sem]) :
                    normalize_course_code(year_data[sem][i]) = normalized_code

\* the courses of all requirement groups, in file order
RECURSIVE GroupCourses(_, _)
GroupCourses(groups, g) ==
    IF g > Len(groups) THEN <<>>
    ELSE [i \in 1..Len(groups[g].courses) |->
             [course |-> groups[g].courses[i],
              in_required_group |-> groups[g].is_required_group]]
         \o GroupCourses(groups, g + 1)

\* tuple comparison
LexLess(a, b) ==
    \E i \in 1..Len(a) : a[i] < b[i] /\ \A j \in 1..(i - 1) : a[j] = b[j]

\* the key of eligible_courses.sort, recommender.py 186-193
sort_key(x) ==
    <<IF x.sequence_aligned THEN 0 ELSE 1,
      IF x.is_required THEN 0 ELSE 1,
      get_course_level(x.course.course_code),
      0 - x.postrequisite_count>>

\* eligible_courses.sort(key=...): stable
StableSort(items) ==
    LET n == Len(items)
        Before(i, j) ==
            \/ LexLess(sort_key(items[i]), sort_key(items[j]))
            \/ (sort_key(items[i]) = sort_key(items[j]) /\ i < j)
        Rank(i) == Cardinality({j \in 1..n : Before(j, i)})
    IN [r \in 1..n |-> items[CHOOSE i \in 1..n : Rank(i) = r - 1]]

\* is_appropriate_level, recommender.py 167-177
is_appropriate_level(course_item) ==
    IF course_item.course.course_code = <<>> THEN TRUE
    ELSE IF get_course_level(course_item.course.course_code) = 4
    THEN course_item.is_required \/ course_item.postrequisite_count > 5
    ELSE TRUE

\* the entry appended to eligible_courses, recommender.py 130-150
eligible_entry(e, code, required_course_codes, student_year, sample_sequence) ==
    [course |-> e.course,
     is_required |-> code \in required_course_codes,
     postrequisite_count |-> Len(e.course.postrequisites),
     sequence_aligned |->
         is_in_sample_sequence(e.course.course_code, student_year, sample_sequence),
     sequence_semester |->
         get_semester_from_course(e.course.course_code, student_year, sample_sequence)]

\* eligible_courses[:num_recommendations]
Slice(seq, n) == SubSeq(seq, 1, IF n < Len(seq) THEN n ELSE Len(seq))

\* the course codes of a list of entries
CodesOf(items) == [i \in 1..Len(items) |-> items[i].course.course_code]

\* recommender.Recommender.recommend_courses: one request to the
\* rule-based recommender
RuleRecommend ==
    /\ tc_pc = "start"
    /\ \E major_name \in RequestMajors, num_recommendations \in 1..MaxRecommendations,
          include_semester_planning \in BOOLEAN :
         /\ tc_major' = major_name
         /\ IF major_name \notin DOMAIN MajorRequirements
            THEN rb_result' = [recommendations |-> <<>>, completed |-> 0, total |-> 0]
            ELSE
            \E completed_set \in {NormalizedCodes(tc_completed)},
               student_year \in {detect_student_year(tc_completed)},
               sample_sequence \in
                   {IF include_semester_planning /\ major_name \in DOMAIN SampleSequences
                    THEN SampleSequences[major_name]
                    ELSE <<>>},
               entries \in
                   {GroupCourses(MajorRequirements[major_name].requirement_groups, 1)} :
            \E all_major_courses \in
                   {SelectSeq(entries,
                              LAMBDA e : normalize_course_code(e.course.course_code)
                                             \notin completed_set)} :
            \E required_course_codes \in
                   {{normalize_course_code(e.course.course_code) :
                        e \in {x \in Elements(all_major_courses) : x.in_required_group}}},
               all_major_course_codes \in
                   {{normalize_course_code(e.course.course_code) : e \in Elements(entries)}},
               takeable \in
                   {SelectSeq(all_major_courses,
                              LAMBDA e : can_take_course(e.course.course_code,
                                                         completed_set,
                                                         e.course.prerequisites).met)} :
            \E eligible_courses \in
                   {[i \in 1..Len(takeable) |->
                        eligible_entry(takeable[i],
                                       normalize_course_code(takeable[i].course.course_code),
                                       required_course_codes, student_year,
                                       sample_sequence)]} :
            \E ranked \in
                   {StableSort(SelectSeq(eligible_courses, is_appropriate_level))} :
              rb_result' =
                  [recommendations |-> CodesOf(Slice(ranked, num_recommendations)),
                   completed |-> Cardinality(completed_set \cap all_major_course_codes),
                   total |-> IF required_course_codes # {}
                             THEN Cardinality(required_course_codes)
                             ELSE Cardinality(all_major_course_codes)]
    /\ tc_pc' = "rule_done"
    /\ UNCHANGED <<tc_corpus, tc_completed, tc_in_progress, tc_error, tc_year,
                   tc_courses_df, tc_eligible, tc_level_filtered, tc_df_eligible,
                   tc_interest_scores, tc_rule_boosts, tc_topk, tc_result>>

TcTaken == {normalize_course_code(c) : c \in tc_completed \cup tc_in_progress}
TcCorpusCodes == {course_code_of(tc_corpus[i]) : i \in 1..Len(tc_corpus)}

\* C7: no course the technical recommender returns has the normalized code
\* of a completed or in-progress course of the request, whatever spelling
\* the corpus or the request uses; the rule-based recommender never returns
\* a completed course.
C7_NoTakenCourseReturned ==
    /\ tc_pc = "done" =>
           \A i \in 1..Len(tc_result) :
               normalize_course_code(tc_result[i].course_code) \notin TcTaken
    /\ tc_pc = "rule_done" =>
           \A i \in 1..Len(rb_result.recommendations) :
               normalize_course_code(rb_result.recommendations[i])
                   \notin {normalize_course_code(c) : c \in tc_completed}

C7_Witness ==
    /\ tc_pc = "done"
    /\ cs357_lower \in tc_completed
    /\ cs498_lower \in tc_in_progress
    /\ {CS357, CS498} \subseteq TcCorpusCodes
    /\ Len(tc_result) >= 1

ExpectedLevelOfYear ==
    [first_year |-> 1, second_year |-> 2, third_year |-> 3, fourth_year |-> 4]

\* C9: the level ceiling keeps a prerequisite-eligible course if and only
\* if its level is at most (expected level of the inferred year) + 1, the
\* years first_year..fourth_year having expected levels 1..4.
C9_LevelCeilingByYear ==
    tc_year \in Years =>
        \A i \in 1..Len(tc_eligible) :
            (\E j \in 1..Len(tc_level_filtered) : tc_level_filtered[j] = tc_eligible[i])
                <=> get_course_level(tc_eligible[i]) <= ExpectedLevelOfYear[tc_year] + 1

\* the rule boosts that hold a given level multiplier: the multiplier
\* times the foundational (1.2) and advanced (1.3) ones, where applied
BoostsWithLevelFactor(factor) ==
    {(((f * a) \div 1000) * factor) \div 1000 : f \in {1000, 1200}, a \in {1000, 1300}}

\* C14: with expected level 1, 2, 3, 4 for first, second, third, fourth year,
\* the rule boost of a course includes x1.1 when its level is the expected
\* level or one above, x0.7 when it is more than one above, and x0.8 when it
\* is a level-1 course and the student is in the third or fourth year.
C14_LevelMultiplier ==
    tc_pc = "scored" =>
        \A i \in 1..Len(tc_df_eligible) :
            LET course_level == get_course_level(tc_df_eligible[i].code)
                expected_level == ExpectedLevelOfYear[tc_year]
            IN /\ course_level \in {expected_level, expected_level + 1}
                      => tc_rule_boosts[i] \in BoostsWithLevelFactor(1100)
               /\ course_level > expected_level + 1
                      => tc_rule_boosts[i] \in BoostsWithLevelFactor(700)
               /\ course_level = 1 /\ tc_year \in {"third_year", "fourth_year"}
                      => tc_rule_boosts[i] \in BoostsWithLevelFactor(800)

\* lines 384-416: the courses of the major's table that are not already
\* taken, whose prerequisites are met and whose level is allowed
SurvivingCourses ==
    LET completed_courses == NormalizedCodes(tc_completed)
        courses_in_progress == NormalizedCodes(tc_in_progress)
        all_courses == [i \in 1..Len(tc_courses_df) |-> tc_courses_df[i].code]
        already_taken == completed_courses \cup courses_in_progress
        candidate_courses == SelectSeq(all_courses, LAMBDA c : c \notin already_taken)
        eligible_courses == get_eligible_courses(candidate_courses, completed_courses,
                                                 courses_in_progress)
        student_year == detect_student_year(completed_courses)
    IN SelectSeq(eligible_courses,
                 LAMBDA course : get_course_level(course) <= max_level_allowed(student_year))

\* C19: a request for a known major in which no course survives the filters
\* (no course of the major in the table, all taken, none with its
\* prerequisites met, none under the level ceiling) raises no error and
\* returns an empty list; a request that returns fewer courses than asked
\* for carries no error.
C19_NoCandidateEmptyNotError ==
    /\ (tc_pc \notin {"start", "idle"} /\ tc_major \in DOMAIN MajorsData
            /\ SurvivingCourses = <<>>)
          => /\ tc_pc # "raised"
             /\ tc_pc = "done" => tc_result = <<>>
    /\ (tc_pc = "done" /\ Len(tc_result) < tc_topk) => tc_error = "None"

\* line 416: eligible_indices = df_eligible.index.tolist(), the row labels
\* the courses had in the full course table
eligible_indices(df_eligible) ==
    [i \in 1..Len(df_eligible) |-> df_eligible[i].label]

\* lines 374-382: corpus and X_tfidf hold one row for each course of
\* courses_df, in its order; row p (from 0) is fitted from this course
fitted_from(courses_df, p) == courses_df[p + 1].code

\* C22: every row index taken from the matrix lies inside it, and the i-th
\* row of X_eligible is the vector fitted from the text of the i-th course of
\* df_eligible.
C22_RowsAligned ==
    /\ tc_error # "IndexError"
    /\ tc_pc \in {"filtered", "scored"} =>
          \A i \in 1..Len(tc_df_eligible) :
              LET row == eligible_indices(tc_df_eligible)[i]
              IN /\ row < Len(tc_courses_df)
                 /\ fitted_from(tc_courses_df, row) = tc_df_eligible[i].code

\* the entries of the major handed to the rule-based recommender
RuleEntries ==
    Elements(GroupCourses(MajorRequirements[tc_major].requirement_groups, 1))

\* a 400-level course that the gate lets through: marked required, or with
\* more than 5 postrequisites
RuleAllows400(code) ==
    \E e \in RuleEntries :
        /\ normalize_course_code(e.course.course_code) = normalize_course_code(code)
        /\ e.in_required_group \/ Len(e.course.postrequisites) > 5

\* C26: a 400-level course is recommended by the rule-based recommender only
\* if it is marked required or has more than 5 postrequisites, and a
\* required or highly-unlocking 400-level course that is eligible is let
\* through by the level filter of the technical recommender.
C26_Level400Gate ==
    /\ (tc_pc = "rule_done" /\ tc_major \in DOMAIN MajorRequirements) =>
          \A i \in 1..Len(rb_result.recommendations) :
              get_course_level(rb_result.recommendations[i]) = 4
                  => RuleAllows400(rb_result.recommendations[i])
    /\ tc_pc \in {"filtered", "scored", "done"} /\ tc_eligible # <<>> =>
          \A i \in 1..Len(tc_eligible) :
              LET course == tc_eligible[i]
                  tech_courses == extract_technical_courses(MajorsData[tc_major])
                  unlocks == Len(DictGet(postreq_graph, course, <<>>))
              IN (get_course_level(course) = 4
                      /\ (course \in tech_courses.required \/ unlocks > 5))
                     => course \in Elements(tc_level_filtered)

\* the rule-based half of C26 alone
RuleLevel400Gate ==
    (tc_pc = "rule_done" /\ tc_major \in DOMAIN MajorRequirements) =>
        \A i \in 1..Len(rb_result.recommendations) :
            get_course_level(rb_result.recommendations[i]) = 4
                => RuleAllows400(rb_result.recommendations[i])

\* recommender.py 233: completed_count / total_required * 100, or 0.0 when
\* the total is 0 (whole percent)
progress_percentage(completed_count, total_required) ==
    IF total_required > 0 THEN (completed_count * 100) \div total_required ELSE 0

\* C29: in the result of the rule-based recommender progress.completed is
\* at most progress.total whenever the total is positive, and
\* progress.percentage lies between 0 and 100.
C29_ProgressWithinBounds ==
    tc_pc = "rule_done" =>
        /\ rb_result.total > 0 => rb_result.completed <= rb_result.total
        /\ progress_percentage(rb_result.completed, rb_result.total) \in 0..100

-----------------------------------------------------------------------------
(* normalize_course_code on course-code-shaped strings                     *)

\* utils/validation.normalize_course_code
validation_normalize_course_code(code) ==
    IF code = <<>> THEN <<>>
    ELSE LET normalized == Upper(Strip(code))
             ms == CodeMatches(normalized)
         IN IF ms # {}
            THEN LET m == CHOOSE x \in ms : TRUE
                 IN SubSeq(normalized, 1, m[1]) \o <<" ">>
                        \o SubSeq(normalized, m[1]+m[2]+1, Len(normalized))
            ELSE normalized

\* the longest run of whitespace around and inside an input
MaxPad == 1

RECURSIVE WsRuns(_)
WsRuns(n) ==
    IF n = 0 THEN {<<>>}
    ELSE WsRuns(n - 1) \cup {Append(r, w) : r \in {x \in WsRuns(n - 1) : Len(x) = n - 1}, w \in WS}

DeptParts ==
    {<<"c">>, <<"c", "s">>, <<"C", "S">>, <<"C", "s">>, <<"M", "a", "t", "h">>,
     <<"P", "H", "Y", "S", "C">>}
NumberParts == {<<"2", "2">>, <<"1", "2", "4">>, <<"1", "2", "4", "5">>}
SuffixParts == {<<>>, <<"a">>, <<"H">>, <<"h", "a">>}

NormalizeImpls == {"prereq_checker", "validation"}

NormalizeParts ==
    [lead : WsRuns(MaxPad), dept : DeptParts, gap : WsRuns(MaxPad),
     number : NumberParts, suffix : SuffixParts, trail : WsRuns(MaxPad)]

CodeOfParts(p) == p.lead \o p.dept \o p.gap \o p.number \o p.suffix \o p.trail

\* the strings passed in: course-code-shaped ones, the empty string and
\* whitespace alone
NoParts == [lead |-> <<>>, dept |-> <<>>, gap |-> <<>>, number |-> <<>>,
            suffix |-> <<>>, trail |-> <<>>]

NmInit ==
    /\ nm_pc = "call"
    /\ nm_impl \in NormalizeImpls
    /\ nm_parts \in NormalizeParts \cup {[NoParts EXCEPT !.lead = r] : r \in WsRuns(MaxPad)}
    /\ nm_code = CodeOfParts(nm_parts)
    /\ nm_result = <<>>
    /\ nm_again = <<>>

NmIdle ==
    /\ nm_pc = "idle"
    /\ nm_impl = "prereq_checker"
    /\ nm_parts = NoParts
    /\ nm_code = <<>>
    /\ nm_result = <<>>
    /\ nm_again = <<>>

NormalizeWith(impl, code) ==
    IF impl = "validation" THEN validation_normalize_course_code(code)
    ELSE normalize_course_code(code)

\* normalize_course_code(code)
NormalizeCode ==
    /\ nm_pc = "call"
    /\ nm_result' = NormalizeWith(nm_impl, nm_code)
    /\ nm_pc' = "once"
    /\ UNCHANGED <<nm_impl, nm_parts, nm_code, nm_again>>

\* normalize_course_code applied to the value it returned
NormalizeAgain ==
    /\ nm_pc = "once"
    /\ nm_again' = NormalizeWith(nm_impl, nm_result)
    /\ nm_pc' = "twice"
    /\ UNCHANGED <<nm_impl, nm_parts, nm_code, nm_result>>

\* 2-4 letters, optional whitespace, 3 digits, an optional trailing letter
WellFormedParts(p) ==
    /\ Len(p.dept) \in 2..4
    /\ Len(p.number) = 3
    /\ Len(p.suffix) <= 1

\* 'DEPT NNN[L]': uppercase letters, exactly one space
CanonicalOfParts(p) == Upper(p.dept) \o <<" ">> \o p.number \o Upper(p.suffix)

\* C12: normalize_course_code maps every string made of 2-4 letters, optional
\* whitespace, 3 digits and an optional trailing letter, in any letter case
\* and with surrounding whitespace, to 'DEPT NNN[L]' with uppercase letters
\* and exactly one space, and applying it to its own result changes nothing,
\* for every string.
C12_NormalizeCanonicalIdempotent ==
    /\ nm_pc \in {"once", "twice"} /\ WellFormedParts(nm_parts)
           => nm_result = CanonicalOfParts(nm_parts)
    /\ nm_pc = "twice" => nm_again = nm_result

\* " cs124" gives "CS 124", and so does "CS 124" given again
C12_Witness ==
    /\ nm_pc = "twice"
    /\ nm_parts.dept = <<"c", "s">>
    /\ nm_parts.gap = <<>>
    /\ nm_parts.lead # <<>>
    /\ nm_result = CS124
    /\ nm_again = CS124

-----------------------------------------------------------------------------
(* The scoring stage of the three recommenders: base similarity, boosts    *)
(* and the combined score, over a small table of candidate records.        *)
(* Similarities and scores are in ten-thousandths, grade points in         *)
(* hundredths, multipliers in thousandths.                                  *)

ScoreDomains == {"club", "gened", "technical"}
MaxRecords == 2
SimValues == {0, 4000}

\* the value of 0.1 at line 431 of technical_recommender.py
UniformInterest == 1000

\* rows of clubs.csv after extract_categories: clean_tags
ClubRowPool ==
    {[clean_tags |-> <<"T", "e", "c", "h", "n", "o", "l", "o", "g", "y">>],
     [clean_tags |-> <<"B", "u", "s", "i", "n", "e", "s", "s", " ", "T", "e", "c", "h", "n", "o", "l", "o", "g", "y">>],
     [clean_tags |-> <<>>]}

\* rows of the gened table: gpa (0 where missing), gened, subject
GenedRowPool ==
    {[gpa |-> 0, gened |-> <<"H", "U", "M">>, subject |-> <<"B", "T", "W">>],
     [gpa |-> 350, gened |-> <<"H", "U", "M", " ", "C", "S">>, subject |-> <<"A", "R", "T">>],
     [gpa |-> 320, gened |-> <<>>, subject |-> <<"B", "T", "W">>]}

\* rows of the technical course table
TechnicalRowPool ==
    {[label |-> 0, code |-> CS124, level |-> "introductory", prereq_count |-> 0,
      postreq_count |-> 6],
     [label |-> 1, code |-> CS374, level |-> "intermediate", prereq_count |-> 2,
      postreq_count |-> 3],
     [label |-> 2, code |-> CS421, level |-> "advanced", prereq_count |-> 1,
      postreq_count |-> 0]}

RowPool(domain) ==
    CASE domain = "club" -> ClubRowPool
      [] domain = "gened" -> GenedRowPool
      [] OTHER -> TechnicalRowPool

RECURSIVE TablesOver(_, _)
TablesOver(pool, n) ==
    IF n = 0 THEN {<<>>}
    ELSE TablesOver(pool, n - 1)
            \cup {Append(t, r) : t \in {x \in TablesOver(pool, n - 1) : Len(x) = n - 1},
                                 r \in pool}

\* request fields of the three recommend operations
ClubQueries ==
    [merged_tags : SUBSET {<<"T", "e", "c", "h", "n", "o", "l", "o", "g", "y">>, <<"B", "u", "s", "i", "n", "e", "s", "s">>},
     avoid_tags : {<<>>, <<<<"b", "u", "s", "i", "n", "e", "s", "s">>>>, <<<<"b", "u", "s", "i", "n", "e", "s", "s">>, <<"t", "e", "c", "h", "n", "o", "l", "o", "g", "y">>>>}]
GenedQueries ==
    [gened_preferences : {<<>>, <<<<"h", "u", "m">>>>, <<<<"h", "u", "m">>, <<"C", "S">>>>},
     min_gpa : {300, 350},
     avoid_subjects : {<<>>, <<<<"b", "t", "w">>>>}]
TechnicalQueries ==
    [student_year : Years, prefer_foundational : BOOLEAN, prefer_advanced : BOOLEAN]

Queries(domain) ==
    CASE domain = "club" -> ClubQueries
      [] domain = "gened" -> GenedQueries
      [] OTHER -> TechnicalQueries

InterestTexts == {<<>>, <<"a", "r", "t">>}

NoQuery == [none |-> TRUE]

ScInit ==
    /\ sc_pc = "start"
    /\ sc_domain \in ScoreDomains
    /\ sc_rows \in {t \in TablesOver(RowPool(sc_domain), MaxRecords) : Len(t) >= 1}
    /\ sc_interests \in InterestTexts
    /\ sc_query = NoQuery
    /\ sc_sims = <<>>
    /\ sc_additive = <<>>
    /\ sc_multiplicative = <<>>
    /\ sc_final = <<>>

ScIdle ==
    /\ sc_pc = "idle"
    /\ sc_domain = "club"
    /\ sc_rows = <<>>
    /\ sc_interests = <<>>
    /\ sc_query = NoQuery
    /\ sc_sims = <<>>
    /\ sc_additive = <<>>
    /\ sc_multiplicative = <<>>
    /\ sc_final = <<>>

\* cosine_similarity(vectorizer.transform([text]), X).flatten(): the empty
\* text has no term, its vector is zero and so is every similarity; another
\* text gives any vector of similarities
transform_similarities(text, n) ==
    IF text = <<>> THEN {[i \in 1..n |-> 0]} ELSE [1..n -> SimValues]

\* technical_recommender.py 426-431
technical_interest_scores(interests, n) ==
    IF interests # <<>> THEN transform_similarities(interests, n)
    ELSE {[i \in 1..n |-> UniformInterest]}

\* the base similarity of each recommender: club_recommender.py 271-273,
\* gened_recommender.py 188-190, technical_recommender.py 425-431
ScoreInterest ==
    /\ sc_pc = "start"
    /\ sc_sims' \in (IF sc_domain = "technical"
                     THEN technical_interest_scores(sc_interests, Len(sc_rows))
                     ELSE transform_similarities(sc_interests, Len(sc_rows)))
    /\ sc_pc' = "sims"
    /\ UNCHANGED <<sc_domain, sc_rows, sc_interests, sc_query, sc_additive,
                   sc_multiplicative, sc_final>>

\* sum(1 for x in items if x.<case>() in text), items a list
CountContained(items, text) ==
    Cardinality({k \in 1..Len(items) : Contains(text, items[k])})

\* club_recommender.py 276-281: 0.2 for each merged tag found in the tags
club_tag_boost(row, merged_tags) ==
    IF merged_tags = {} THEN 0
    ELSE 2000 * Cardinality({tag \in merged_tags :
                                Contains(Lower(row.clean_tags), Lower(tag))})

\* club_recommender.py 284-289: -0.3 for each avoided tag found in the tags
club_tag_penalty(row, avoid_tags) ==
    IF avoid_tags = <<>> THEN 0
    ELSE -3000 * CountContained([k \in 1..Len(avoid_tags) |-> Lower(avoid_tags[k])],
                                Lower(row.clean_tags))

\* scores = sims + tag_boost + tag_penalty, with the penalty left out
club_scores_without_penalty(sims, tag_boost, tag_penalty) ==
    [i \in 1..Len(sims) |-> sims[i] + tag_boost[i]]

\* club_recommender.py 292
club_scores(sims, tag_boost, tag_penalty) ==
    [i \in 1..Len(sims) |-> sims[i] + tag_boost[i] + tag_penalty[i]]

\* club_recommender.py 275-292
ClubBoosts ==
    /\ sc_pc = "sims"
    /\ sc_domain = "club"
    /\ \E q \in ClubQueries :
         LET n == Len(sc_rows)
             tag_boost == [i \in 1..n |-> club_tag_boost(sc_rows[i], q.merged_tags)]
             tag_penalty == [i \in 1..n |-> club_tag_penalty(sc_rows[i], q.avoid_tags)]
         IN /\ sc_query' = q
            /\ sc_additive' = [i \in 1..n |-> <<tag_boost[i], tag_penalty[i]>>]
            /\ sc_multiplicative' = [i \in 1..n |-> <<>>]
            /\ sc_final' = club_scores(sc_sims, tag_boost, tag_penalty)
    /\ sc_pc' = "scored"
    /\ UNCHANGED <<sc_domain, sc_rows, sc_interests, sc_sims>>

\* gened_recommender.py 193-197: np.where(gpa >= min_gpa, 0.2 * (gpa - min_gpa), 0)
gened_gpa_boost(row, min_gpa) ==
    IF row.gpa >= min_gpa THEN 20 * (row.gpa - min_gpa) ELSE 0

\* gened_recommender.py 200-205: 0.15 for each preference found in gened
gened_boost(row, gened_preferences) ==
    IF gened_preferences = <<>> THEN 0
    ELSE 1500 * CountContained([k \in 1..Len(gened_preferences) |->
                                   Upper(gened_preferences[k])],
                               Upper(row.gened))

\* gened_recommender.py 208-213: -0.5 when the subject is an avoided one
gened_subject_penalty(row, avoid_subjects) ==
    IF avoid_subjects = <<>> THEN 0
    ELSE IF \E k \in 1..Len(avoid_subjects) : Upper(row.subject) = Upper(avoid_subjects[k])
         THEN -5000 ELSE 0

\* gened_recommender.py 216
gened_scores(sims, gpa_boost, gened_b, subject_penalty) ==
    [i \in 1..Len(sims) |-> sims[i] + gpa_boost[i] + gened_b[i] + subject_penalty[i]]

\* gened_recommender.py 192-216
GenedBoosts ==
    /\ sc_pc = "sims"
    /\ sc_domain = "gened"
    /\ \E q \in GenedQueries :
         LET n == Len(sc_rows)
             gpa_boost == [i \in 1..n |-> gened_gpa_boost(sc_rows[i], q.min_gpa)]
             gened_b == [i \in 1..n |-> gened_boost(sc_rows[i], q.gened_preferences)]
             subject_penalty ==
                 [i \in 1..n |-> gened_subject_penalty(sc_rows[i], q.avoid_subjects)]
         IN /\ sc_query' = q
            /\ sc_additive' =
                   [i \in 1..n |-> <<gpa_boost[i], gened_b[i], subject_penalty[i]>>]
            /\ sc_multiplicative' = [i \in 1..n |-> <<>>]
            /\ sc_final' = gened_scores(sc_sims, gpa_boost, gened_b, subject_penalty)
    /\ sc_pc' = "scored"
    /\ UNCHANGED <<sc_domain, sc_rows, sc_interests, sc_sims>>

\* the three multipliers of _calculate_rule_based_boost, one by one
\* (technical_recommender.py 244-245, 248-249, 252-271), in thousandths
foundational_factor(course_row, prefer_foundational) ==
    IF prefer_foundational /\ course_row.postreq_count > 5 THEN 1200 ELSE 1000

advanced_factor(course_row, prefer_advanced) ==
    IF prefer_advanced /\ course_row.level = "advanced" THEN 1300 ELSE 1000

level_factor(course_row, student_year) ==
    LET course_level == get_course_level(course_row.code)
        expected_level == DictGet(year_to_level, student_year, 2)
    IN IF course_level = expected_level \/ course_level = expected_level + 1
       THEN 1100
       ELSE IF course_level > expected_level + 1 THEN 700
       ELSE IF student_year \in {"junior", "senior"} /\ course_level <= 1 THEN 800
       ELSE 1000

\* interest_scores + rule_boosts in place of the product
boosted_scores_added(interest_scores, rule_boosts) ==
    [i \in 1..Len(interest_scores) |-> interest_scores[i] + rule_boosts[i]]

\* technical_recommender.py 445: boosted_scores = interest_scores * rule_boosts
boosted_scores(interest_scores, rule_boosts) ==
    [i \in 1..Len(interest_scores) |-> (interest_scores[i] * rule_boosts[i]) \div 1000]

\* technical_recommender.py 433-445
TechnicalBoosts ==
    /\ sc_pc = "sims"
    /\ sc_domain = "technical"
    /\ \E q \in TechnicalQueries :
         LET n == Len(sc_rows)
             rule_boosts ==
                 [i \in 1..n |->
                     calculate_rule_based_boost(sc_rows[i], q.student_year,
                                                q.prefer_foundational,
                                                q.prefer_advanced)]
         IN /\ sc_query' = q
            /\ sc_additive' = [i \in 1..n |-> <<>>]
            /\ sc_multiplicative' =
                   [i \in 1..n |->
                       <<foundational_factor(sc_rows[i], q.prefer_foundational),
                         advanced_factor(sc_rows[i], q.prefer_advanced),
                         level_factor(sc_rows[i], q.student_year)>>]
            /\ sc_final' = boosted_scores(sc_sims, rule_boosts)
    /\ sc_pc' = "scored"
    /\ UNCHANGED <<sc_domain, sc_rows, sc_interests, sc_sims>>

RECURSIVE SumSeq(_)
SumSeq(s) == IF s = <<>> THEN 0 ELSE s[1] + SumSeq(Tail(s))

\* x multiplied by each factor in turn, the factors in thousandths
RECURSIVE TimesAll(_, _)
TimesAll(x, factors) ==
    IF factors = <<>> THEN x
    ELSE TimesAll((x * factors[1]) \div 1000, Tail(factors))

C15_EmptyInterestUniformPositive ==
    (sc_pc \in {"sims", "scored"} /\ sc_interests = <<>>) =>
        \A i \in 1..Len(sc_rows) : sc_sims[i] > 0 /\ sc_sims[i] = sc_sims[1]

\* the number of items that occur, whatever the case, in a text
Matches(items, text) ==
    Cardinality({k \in 1..Len(items) : Contains(Lower(text), Lower(items[k]))})

\* the same for a set of tags
MatchingTags(tags, text) ==
    Cardinality({tag \in tags : Contains(Lower(text), Lower(tag))})

\* C21: in the club and in the gened recommender each matching preferred tag
\* or category adds exactly 0.2 to the score of a record, and in the club
\* recommender each matching avoided tag subtracts exactly 0.3.
C21_BoostPerMatch ==
    sc_pc = "scored" =>
        \A i \in 1..Len(sc_rows) :
            /\ sc_domain = "club" =>
                  /\ sc_additive[i][1]
                         = 2000 * MatchingTags(sc_query.merged_tags, sc_rows[i].clean_tags)
                  /\ sc_additive[i][2]
                         = -3000 * Matches(sc_query.avoid_tags, sc_rows[i].clean_tags)
            /\ sc_domain = "gened" =>
                  sc_additive[i][2]
                      = 2000 * Matches(sc_query.gened_preferences, sc_rows[i].gened)

\* the club half of C21 alone
ClubBoostPerMatch ==
    (sc_pc = "scored" /\ sc_domain = "club") =>
        \A i \in 1..Len(sc_rows) :
            /\ sc_additive[i][1]
                   = 2000 * MatchingTags(sc_query.merged_tags, sc_rows[i].clean_tags)
            /\ sc_additive[i][2]
                   = -3000 * Matches(sc_query.avoid_tags, sc_rows[i].clean_tags)

-----------------------------------------------------------------------------
(* The start of a club request (typo correction and tag merging) and of a  *)
(* gened request (typo correction).                                        *)

\* the canonical tags named by tag_rules (club_recommender.py 150-206)
Tag_Advocacy_Activism == <<"A", "d", "v", "o", "c", "a", "c", "y", " ", "&",
    " ", "A", "c", "t", "i", "v", "i", "s", "m">>
Tag_Athletic_Recreation == <<"A", "t", "h", "l", "e", "t", "i", "c", " ", "&",
    " ", "R", "e", "c", "r", "e", "a", "t", "i", "o", "n">>
Tag_Business == <<"B", "u", "s", "i", "n", "e", "s", "s">>
Tag_Club_Sports == <<"C", "l", "u", "b", " ", "S", "p", "o", "r", "t", "s">>
Tag_Community_Service_Philanthropy == <<"C", "o", "m", "m", "u", "n", "i",
    "t", "y", " ", "S", "e", "r", "v", "i", "c", "e", " ", "&", " ", "P", "h",
    "i", "l", "a", "n", "t", "h", "r", "o", "p", "y">>
Tag_Education == <<"E", "d", "u", "c", "a", "t", "i", "o", "n">>
Tag_Engineering_Mathematics == <<"E", "n", "g", "i", "n", "e", "e", "r", "i",
    "n", "g", " ", "&", " ", "M", "a", "t", "h", "e", "m", "a", "t", "i", "c",
    "s">>
Tag_Environmental_Sustainability == <<"E", "n", "v", "i", "r", "o", "n", "m",
    "e", "n", "t", "a", "l", " ", "&", " ", "S", "u", "s", "t", "a", "i", "n",
    "a", "b", "i", "l", "i", "t", "y">>
Tag_Faith == <<"F", "a", "i", "t", "h">>
Tag_Health_Human_Sciences == <<"H", "e", "a", "l", "t", "h", " ", "&", " ",
    "H", "u", "m", "a", "n", " ", "S", "c", "i", "e", "n", "c", "e", "s">>
Tag_Health_Wellness == <<"H", "e", "a", "l", "t", "h", " ", "&", " ", "W",
    "e", "l", "l", "n", "e", "s", "s">>
Tag_Identity_Culture == <<"I", "d", "e", "n", "t", "i", "t", "y", " ", "&",
    " ", "C", "u", "l", "t", "u", "r", "e">>
Tag_Ideology_Politics == <<"I", "d", "e", "o", "l", "o", "g", "y", " ", "&",
    " ", "P", "o", "l", "i", "t", "i", "c", "s">>
Tag_Information_Data_Sciences == <<"I", "n", "f", "o", "r", "m", "a", "t",
    "i", "o", "n", " ", "&", " ", "D", "a", "t", "a", " ", "S", "c", "i", "e",
    "n", "c", "e", "s">>
Tag_International == <<"I", "n", "t", "e", "r", "n", "a", "t", "i", "o", "n",
    "a", "l">>
Tag_Law == <<"L", "a", "w">>
Tag_Life_Physical_Sciences == <<"L", "i", "f", "e", " ", "&", " ", "P", "h",
    "y", "s", "i", "c", "a", "l", " ", "S", "c", "i", "e", "n", "c", "e",
    "s">>
Tag_Media_Arts == <<"M", "e", "d", "i", "a", " ", "A", "r", "t", "s">>
Tag_Pedagogy_Instruction == <<"P", "e", "d", "a", "g", "o", "g", "y", " ",
    "&", " ", "I", "n", "s", "t", "r", "u", "c", "t", "i", "o", "n">>
Tag_Performance_Arts == <<"P", "e", "r", "f", "o", "r", "m", "a", "n", "c",
    "e", " ", "A", "r", "t", "s">>
Tag_Religion_Spirituality == <<"R", "e", "l", "i", "g", "i", "o", "n", " ",
    "&", " ", "S", "p", "i", "r", "i", "t", "u", "a", "l", "i", "t", "y">>
Tag_Social_Behavioral_Sciences == <<"S", "o", "c", "i", "a", "l", " ", "&",
    " ", "B", "e", "h", "a", "v", "i", "o", "r", "a", "l", " ", "S", "c", "i",
    "e", "n", "c", "e", "s">>
Tag_Social_Leisure == <<"S", "o", "c", "i", "a", "l", " ", "&", " ", "L", "e",
    "i", "s", "u", "r", "e">>
Tag_Social_Fraternities_Sororities == <<"S", "o", "c", "i", "a", "l", " ",
    "F", "r", "a", "t", "e", "r", "n", "i", "t", "i", "e", "s", " ", "&", " ",
    "S", "o", "r", "o", "r", "i", "t", "i", "e", "s">>
Tag_Technology == <<"T", "e", "c", "h", "n", "o", "l", "o", "g", "y">>

\* tag_rules: keyword, canonical tags
tag_rules ==
    <<[keyword |-> <<"s", "p", "o", "r", "t", "s">>,
       tags |-> {Tag_Athletic_Recreation, Tag_Club_Sports}],
      [keyword |-> <<"s", "p", "o", "r", "t">>,
       tags |-> {Tag_Athletic_Recreation, Tag_Club_Sports}],
      [keyword |-> <<"a", "t", "h", "l", "e", "t", "i", "c">>,
       tags |-> {Tag_Athletic_Recreation, Tag_Club_Sports}],
      [keyword |-> <<"f", "i", "t", "n", "e", "s", "s">>,
       tags |-> {Tag_Athletic_Recreation, Tag_Club_Sports}],
      [keyword |-> <<"e", "x", "e", "r", "c", "i", "s", "e">>,
       tags |-> {Tag_Athletic_Recreation, Tag_Club_Sports}],
      [keyword |-> <<"g", "y", "m">>,
       tags |-> {Tag_Athletic_Recreation, Tag_Club_Sports}],
      [keyword |-> <<"b", "u", "s", "i", "n", "e", "s", "s">>,
       tags |-> {Tag_Business}],
      [keyword |-> <<"p", "r", "o", "f", "e", "s", "s", "i", "o", "n", "a",
          "l">>,
       tags |-> {Tag_Business}],
      [keyword |-> <<"c", "a", "r", "e", "e", "r">>,
       tags |-> {Tag_Business}],
      [keyword |-> <<"e", "n", "g", "i", "n", "e", "e", "r", "i", "n", "g">>,
       tags |-> {Tag_Engineering_Mathematics}],
      [keyword |-> <<"m", "a", "t", "h">>,
       tags |-> {Tag_Engineering_Mathematics}],
      [keyword |-> <<"a", "r", "t">>,
       tags |-> {Tag_Media_Arts, Tag_Performance_Arts}],
      [keyword |-> <<"m", "u", "s", "i", "c">>,
       tags |-> {Tag_Performance_Arts}],
      [keyword |-> <<"d", "a", "n", "c", "e">>,
       tags |-> {Tag_Performance_Arts}],
      [keyword |-> <<"t", "h", "e", "a", "t", "e", "r">>,
       tags |-> {Tag_Performance_Arts}],
      [keyword |-> <<"t", "h", "e", "a", "t", "r", "e">>,
       tags |-> {Tag_Performance_Arts}],
      [keyword |-> <<"p", "e", "r", "f", "o", "r", "m", "a", "n", "c", "e">>,
       tags |-> {Tag_Performance_Arts}],
      [keyword |-> <<"c", "r", "e", "a", "t", "i", "v", "e">>,
       tags |-> {Tag_Media_Arts, Tag_Performance_Arts}],
      [keyword |-> <<"v", "o", "l", "u", "n", "t", "e", "e", "r">>,
       tags |-> {Tag_Community_Service_Philanthropy}],
      [keyword |-> <<"s", "e", "r", "v", "i", "c", "e">>,
       tags |-> {Tag_Community_Service_Philanthropy}],
      [keyword |-> <<"c", "o", "m", "m", "u", "n", "i", "t", "y">>,
       tags |-> {Tag_Community_Service_Philanthropy}],
      [keyword |-> <<"p", "h", "i", "l", "a", "n", "t", "h", "r", "o", "p",
          "y">>,
       tags |-> {Tag_Community_Service_Philanthropy}],
      [keyword |-> <<"s", "o", "c", "i", "a", "l">>,
       tags |-> {Tag_Social_Leisure, Tag_Community_Service_Philanthropy}],
      [keyword |-> <<"t", "e", "c", "h", "n", "o", "l", "o", "g", "y">>,
       tags |-> {Tag_Technology}],
      [keyword |-> <<"t", "e", "c", "h">>,
       tags |-> {Tag_Technology}],
      [keyword |-> <<"c", "o", "m", "p", "u", "t", "e", "r">>,
       tags |-> {Tag_Technology, Tag_Information_Data_Sciences}],
      [keyword |-> <<"p", "r", "o", "g", "r", "a", "m", "m", "i", "n", "g">>,
       tags |-> {Tag_Technology}],
      [keyword |-> <<"c", "o", "d", "i", "n", "g">>,
       tags |-> {Tag_Technology}],
      [keyword |-> <<"d", "a", "t", "a">>,
       tags |-> {Tag_Information_Data_Sciences}],
      [keyword |-> <<"s", "c", "i", "e", "n", "c", "e">>,
       tags |-> {Tag_Life_Physical_Sciences, Tag_Social_Behavioral_Sciences}],
      [keyword |-> <<"s", "t", "e", "m">>,
       tags |-> {Tag_Technology, Tag_Engineering_Mathematics, Tag_Life_Physical_Sciences}],
      [keyword |-> <<"c", "u", "l", "t", "u", "r", "e">>,
       tags |-> {Tag_Identity_Culture}],
      [keyword |-> <<"c", "u", "l", "t", "u", "r", "a", "l">>,
       tags |-> {Tag_Identity_Culture}],
      [keyword |-> <<"i", "d", "e", "n", "t", "i", "t", "y">>,
       tags |-> {Tag_Identity_Culture}],
      [keyword |-> <<"i", "n", "t", "e", "r", "n", "a", "t", "i", "o", "n",
          "a", "l">>,
       tags |-> {Tag_International}],
      [keyword |-> <<"h", "e", "a", "l", "t", "h">>,
       tags |-> {Tag_Health_Wellness, Tag_Health_Human_Sciences}],
      [keyword |-> <<"m", "e", "d", "i", "c", "a", "l">>,
       tags |-> {Tag_Health_Wellness}],
      [keyword |-> <<"m", "e", "d", "i", "c", "i", "n", "e">>,
       tags |-> {Tag_Health_Wellness}],
      [keyword |-> <<"w", "e", "l", "l", "n", "e", "s", "s">>,
       tags |-> {Tag_Health_Wellness}],
      [keyword |-> <<"a", "c", "t", "i", "v", "i", "s", "m">>,
       tags |-> {Tag_Advocacy_Activism}],
      [keyword |-> <<"a", "d", "v", "o", "c", "a", "c", "y">>,
       tags |-> {Tag_Advocacy_Activism}],
      [keyword |-> <<"j", "u", "s", "t", "i", "c", "e">>,
       tags |-> {Tag_Advocacy_Activism}],
      [keyword |-> <<"e", "d", "u", "c", "a", "t", "i", "o", "n">>,
       tags |-> {Tag_Education, Tag_Pedagogy_Instruction}],
      [keyword |-> <<"t", "e", "a", "c", "h", "i", "n", "g">>,
       tags |-> {Tag_Education, Tag_Pedagogy_Instruction}],
      [keyword |-> <<"f", "a", "i", "t", "h">>,
       tags |-> {Tag_Faith, Tag_Religion_Spirituality}],
      [keyword |-> <<"r", "e", "l", "i", "g", "i", "o", "n">>,
       tags |-> {Tag_Religion_Spirituality}],
      [keyword |-> <<"s", "p", "i", "r", "i", "t", "u", "a", "l">>,
       tags |-> {Tag_Religion_Spirituality}],
      [keyword |-> <<"g", "r", "e", "e", "k">>,
       tags |-> {Tag_Social_Fraternities_Sororities}],
      [keyword |-> <<"f", "r", "a", "t", "e", "r", "n", "i", "t", "y">>,
       tags |-> {Tag_Social_Fraternities_Sororities}],
      [keyword |-> <<"s", "o", "r", "o", "r", "i", "t", "y">>,
       tags |-> {Tag_Social_Fraternities_Sororities}],
      [keyword |-> <<"e", "n", "v", "i", "r", "o", "n", "m", "e", "n", "t">>,
       tags |-> {Tag_Environmental_Sustainability}],
      [keyword |-> <<"s", "u", "s", "t", "a", "i", "n", "a", "b", "i", "l",
          "i", "t", "y">>,
       tags |-> {Tag_Environmental_Sustainability}],
      [keyword |-> <<"p", "o", "l", "i", "t", "i", "c", "s">>,
       tags |-> {Tag_Ideology_Politics}],
      [keyword |-> <<"p", "o", "l", "i", "t", "i", "c", "a", "l">>,
       tags |-> {Tag_Ideology_Politics}],
      [keyword |-> <<"l", "a", "w">>,
       tags |-> {Tag_Law}]>>

\* str.replace(old, new), old and new one character each
ReplaceChar(s, old, new) == [i \in 1..Len(s) |-> IF s[i] = old THEN new ELSE s[i]]

\* str.split(): the words between runs of whitespace
RECURSIVE SplitWs(_)
SplitWs(s) ==
    LET i == SkipWs(s, 1) IN
    IF i > Len(s) THEN <<>>
    ELSE LET ends == {k \in i..Len(s) : s[k] \in WS}
             j == IF ends = {} THEN Len(s) + 1 ELSE Min(ends)
         IN <<SubSeq(s, i, j - 1)>> \o SplitWs(SubSeq(s, j, Len(s)))

\* str.split(sep), sep one character
RECURSIVE SplitOn(_, _)
SplitOn(s, sep) ==
    LET at == {k \in 1..Len(s) : s[k] = sep} IN
    IF at = {} THEN <<s>>
    ELSE <<SubSeq(s, 1, Min(at) - 1)>> \o SplitOn(SubSeq(s, Min(at) + 1, Len(s)), sep)

\* sep.join(words)
RECURSIVE JoinWith(_, _)
JoinWith(words, sep) ==
    IF words = <<>> THEN <<>>
    ELSE IF Len(words) = 1 THEN words[1]
    ELSE words[1] \o sep \o JoinWith(Tail(words), sep)

\* club _fix_typo, lines 220-223: the items of a string or of a list
club_typo_items(text_or_list) ==
    IF text_or_list.t = "str"
    THEN SplitWs(ReplaceChar(Lower(text_or_list.v), ",", " "))
    ELSE [i \in 1..Len(text_or_list.v) |-> Lower(text_or_list.v[i])]

\* gened _fix_typo, lines 147-148: text.lower().split(','), each stripped
gened_typo_items(text) ==
    LET parts == SplitOn(Lower(text), ",")
    IN [i \in 1..Len(parts) |-> Strip(parts[i])]

\* the items that reach process.extractOne: `if word.strip():` / `if word:`
Checked(items) == SelectSeq(items, LAMBDA word : Strip(word) # <<>>)

\* process.extractOne(word, vocab) returns None when vocab is empty, and
\* `match, score = None` raises TypeError
fix_typo_raises(items, vocab) ==
    Checked(items) # <<>> /\ vocab = {}

\* the loop of _fix_typo: match if score > 70 else word
fix_typo_cleaned(items, extract) ==
    LET checked == Checked(items)
    IN [i \in 1..Len(checked) |->
           IF extract[checked[i]].score > 70 THEN extract[checked[i]].match
           ELSE checked[i]]

\* _merge_related_tags, lines 208-210
tags_by_rule(interests_str) ==
    UNION {tag_rules[r].tags : r \in {k \in 1..Len(tag_rules) :
                                        Contains(interests_str, tag_rules[k].keyword)}}

\* _merge_related_tags
merge_related_tags(user_interests, tag_categories) ==
    LET interests_str == Lower(JoinWith(user_interests, <<" ">>))
    IN tags_by_rule(interests_str)
           \cup {user_interests[i] : i \in {k \in 1..Len(user_interests) :
                                               user_interests[k] \in tag_categories}}

\* what the requests of the model are made of
MaxTags == 1
ChessTag == <<"c", "h", "e", "s", "s">>
InterestPool == {<<>>, <<"T", "e", "c", "h", ",", " ", "a", "r", "t">>, <<"t",
    "e", "a", "c", "h">>, <<" ">>}
PreferredPool == {Tag_Law, Tag_Pedagogy_Instruction, ChessTag, <<" ", " ">>}
TagKeyPool == {Tag_Law, Tag_Pedagogy_Instruction, ChessTag}
BaseVocabs == {{}, {<<"t", "e", "a", "c", "h">>, <<"a", "r", "t">>}}
ScoreSamples == {70, 71}

RECURSIVE ListsOver(_, _)
ListsOver(pool, n) ==
    IF n = 0 THEN {<<>>}
    ELSE ListsOver(pool, n - 1)
            \cup {Append(t, r) : t \in {x \in ListsOver(pool, n - 1) : Len(x) = n - 1},
                                 r \in pool}

\* _build_vocab, line 122: the words of the table and the lowercased tag keys
vocab_of(base, tag_categories) == base \cup {Lower(k) : k \in tag_categories}

NoExtract == <<>>

ClInit ==
    /\ cl_pc = "start"
    /\ cl_kind \in {"club", "gened"}
    /\ cl_tag_categories \in SUBSET TagKeyPool
    /\ \E base \in BaseVocabs : cl_vocab = vocab_of(base, cl_tag_categories)
    /\ cl_interests \in InterestPool
    /\ cl_preferred_tags \in ListsOver(PreferredPool, MaxTags)
    /\ cl_extract = NoExtract
    /\ cl_words = <<>>
    /\ cl_fixed_tags = <<>>
    /\ cl_merged = {}
    /\ cl_error = "None"

ClIdle ==
    /\ cl_pc = "idle"
    /\ cl_kind = "club"
    /\ cl_tag_categories = {}
    /\ cl_vocab = {}
    /\ cl_interests = <<>>
    /\ cl_preferred_tags = <<>>
    /\ cl_extract = NoExtract
    /\ cl_words = <<>>
    /\ cl_fixed_tags = <<>>
    /\ cl_merged = {}
    /\ cl_error = "None"

cl_inputs == <<cl_kind, cl_tag_categories, cl_vocab, cl_interests, cl_preferred_tags>>

\* what process.extractOne can return for a word: the word itself with score
\* 100 when it is in the vocabulary, else some vocabulary word and a score
ExtractOutcomes(word, vocab) ==
    IF word \in vocab THEN {[match |-> word, score |-> 100]}
    ELSE [match : vocab, score : ScoreSamples]

\* the results of process.extractOne on the words of one request
Extracts(words, vocab) ==
    {f \in [words -> [match : vocab, score : ScoreSamples \cup {100}]] :
        \A w \in words : f[w] \in ExtractOutcomes(w, vocab)}

\* recommend_clubs, lines 260-265
ClubFixTypo ==
    /\ cl_pc = "start"
    /\ cl_kind = "club"
    /\ LET interest_items == club_typo_items(PyStr(cl_interests))
           tag_items == club_typo_items(PyList(cl_preferred_tags))
           words == Elements(Checked(interest_items)) \cup Elements(Checked(tag_items))
       IN IF fix_typo_raises(interest_items, cl_vocab)
             \/ fix_typo_raises(tag_items, cl_vocab)
          THEN /\ cl_pc' = "raised"
               /\ cl_error' = "TypeError"
               /\ UNCHANGED <<cl_extract, cl_words, cl_fixed_tags>>
          ELSE \E extract \in Extracts(words, cl_vocab) :
                  /\ cl_extract' = extract
                  /\ cl_words' = fix_typo_cleaned(interest_items, extract)
                  /\ cl_fixed_tags' = fix_typo_cleaned(tag_items, extract)
                  /\ cl_pc' = "fixed"
                  /\ UNCHANGED cl_error
    /\ UNCHANGED <<cl_inputs, cl_merged>>

\* recommend_clubs, lines 263 and 267-269
ClubMergeTags ==
    /\ cl_pc = "fixed"
    /\ cl_kind = "club"
    /\ LET interests == JoinWith(cl_words, <<" ">>)
           all_interests == SplitWs(interests) \o cl_fixed_tags
       IN cl_merged' = merge_related_tags(all_interests, cl_tag_categories)
    /\ cl_pc' = "merged"
    /\ UNCHANGED <<cl_inputs, cl_extract, cl_words, cl_fixed_tags, cl_error>>

\* gened recommend_courses, line 185
GenedFixTypo ==
    /\ cl_pc = "start"
    /\ cl_kind = "gened"
    /\ LET items == IF cl_interests # <<>>
                    THEN gened_typo_items(ReplaceChar(cl_interests, " ", ","))
                    ELSE <<>>
       IN IF fix_typo_raises(items, cl_vocab)
          THEN /\ cl_pc' = "raised"
               /\ cl_error' = "TypeError"
               /\ UNCHANGED <<cl_extract, cl_words>>
          ELSE \E extract \in Extracts(Elements(Checked(items)), cl_vocab) :
                  /\ cl_extract' = extract
                  /\ cl_words' = fix_typo_cleaned(items, extract)
                  /\ cl_pc' = "fixed"
                  /\ UNCHANGED cl_error
    /\ UNCHANGED <<cl_inputs, cl_fixed_tags, cl_merged>>

\* the items a request hands to _fix_typo for its interest text
InterestItems ==
    IF cl_kind = "club" THEN club_typo_items(PyStr(cl_interests))
    ELSE IF cl_interests # <<>>
         THEN gened_typo_items(ReplaceChar(cl_interests, " ", ","))
         ELSE <<>>

\* C17: _fix_typo never fails; with an empty vocabulary it returns the input
\* tokens unchanged; a token is replaced by its best match only when the
\* score is strictly greater than 70 and kept otherwise; empty and
\* whitespace-only tokens are dropped.
C17_TypoCorrectorNeverFails ==
    /\ cl_pc # "raised"
    /\ cl_pc \in {"fixed", "merged"} =>
          LET tokens == SelectSeq(InterestItems, LAMBDA w : Strip(w) # <<>>)
          IN /\ Len(cl_words) = Len(tokens)
             /\ \A i \in 1..Len(tokens) :
                   cl_words[i] = IF cl_extract[tokens[i]].score > 70
                                 THEN cl_extract[tokens[i]].match
                                 ELSE tokens[i]
             /\ (cl_vocab = {} => cl_words = tokens)

\* the words and tags the caller supplied
SuppliedTokens ==
    Elements(SplitWs(ReplaceChar(cl_interests, ",", " "))) \cup Elements(cl_preferred_tags)

\* C18: the merged tag set of a club request contains every canonical tag of
\* a keyword rule whose keyword is a substring of the lowercased joined
\* interests, and every preferred tag or interest token supplied by the
\* caller that is a key of the tag-category table.
C18_MergedTagSet ==
    cl_pc = "merged" =>
        /\ \A r \in 1..Len(tag_rules) :
              Contains(Lower(JoinWith(cl_words \o cl_fixed_tags, <<" ">>)),
                       tag_rules[r].keyword)
                  => tag_rules[r].tags \subseteq cl_merged
        /\ \A token \in SuppliedTokens :
              token \in cl_tag_categories => token \in cl_merged

-----------------------------------------------------------------------------
(* The combined endpoint: one worker thread per domain                      *)
(* get_combined_recommendations starts get_gened, get_clubs and             *)
(* get_technical with asyncio.to_thread and gathers their results.          *)

\* the module-level singletons: the three recommenders and the data loader
\* of the fallback recommender
Recommenders == Domains \cup {"data_loader"}

\* every getter hands out the one recommender object
shared_recommender(domain) == "club"

\* get_club_recommender, get_gened_recommender, get_technical_recommender:
\* each returns the singleton of its own module
recommender_of(domain) == domain

\* a recommender before its first request: _clubs_df / _courses_df /
\* _all_courses_df, _vectorizer and _X_tfidf are None
NotLoaded == [loaded |-> FALSE]

TopK == 2

\* what a data file can hold: the records, and for the text of the request
\* the score of each record and the similarities of the fitted matrix
CorpusFiles ==
    {[ids |-> <<"a", "b", "c">>, scores |-> <<4000, 0, -3000>>,
      pattern |-> "distinct"],
     [ids |-> <<"d", "e", "f">>, scores |-> <<0, 4000, 4000>>,
      pattern |-> "identical"],
     [ids |-> <<"g", "h">>, scores |-> <<0, 4000>>, pattern |-> "first_pair"]}

\* _load_clubs / _load_courses / _load_course_data: read the file, keep the
\* table, fit the vectorizer
read_corpus(file) ==
    [loaded |-> TRUE, df |-> file.ids, X_tfidf |-> file.pattern,
     scores |-> file.scores]

\* the lazy load: `if self._clubs_df is None:`
load_into(caches, slot, file) ==
    IF caches[slot].loaded THEN caches
    ELSE [caches EXCEPT ![slot] = read_corpus(file)]

\* recommend_clubs / recommend_courses on a loaded recommender: diversify,
\* copy the selected rows, sort the copy by score, keep head(topk)
recommend_results(domain, cache, topk) ==
    LET k == DiversifierK(domain, topk, Len(cache.scores))
        top_indices == mmr_diversify(cache.scores, cache.X_tfidf, k, DefaultLambda)
    IN {Pick(cache.df, DataFrameHead(sorted, topk)) :
            sorted \in SortedDescending(top_indices, cache.scores)}

\* the fallback of get_technical: the old recommender on the data loader
fallback_result(cache, n) == DataFrameHead(cache.df, n)

NoRecommender == "None"

CbInit ==
    /\ cb_files \in [Recommenders -> CorpusFiles]
    /\ cb_cache = [r \in Recommenders |-> NotLoaded]
    /\ cb_pc = [d \in Domains |-> "start"]
    /\ cb_self = [d \in Domains |-> NoRecommender]
    /\ cb_result = [d \in Domains |-> <<>>]
    /\ cb_fallback = FALSE

CbIdle ==
    /\ cb_files = [r \in Recommenders |-> [ids |-> <<>>, scores |-> <<>>,
                                           pattern |-> "distinct"]]
    /\ cb_cache = [r \in Recommenders |-> NotLoaded]
    /\ cb_pc = [d \in Domains |-> "idle"]
    /\ cb_self = [d \in Domains |-> NoRecommender]
    /\ cb_result = [d \in Domains |-> <<>>]
    /\ cb_fallback = FALSE

\* routes.py 456, 475, 494: the thread of a domain asks for its recommender
GetRecommender ==
    \E d \in Domains :
        /\ cb_pc[d] = "start"
        /\ cb_self' = [cb_self EXCEPT ![d] = recommender_of(d)]
        /\ cb_pc' = [cb_pc EXCEPT ![d] = "got"]
        /\ UNCHANGED <<cb_files, cb_cache, cb_result, cb_fallback>>

\* the first lines of recommend_clubs / recommend_courses: the lazy load
LoadCorpus ==
    \E d \in Domains :
        /\ cb_pc[d] = "got"
        /\ cb_cache' = load_into(cb_cache, cb_self[d], cb_files[d])
        /\ cb_pc' = [cb_pc EXCEPT ![d] = "loaded"]
        /\ UNCHANGED <<cb_files, cb_self, cb_result, cb_fallback>>

\* the rest of recommend_clubs and of the gened recommend_courses
RecommendFromCorpus ==
    \E d \in {"club", "gened"} :
        /\ cb_pc[d] = "loaded"
        /\ \E result \in recommend_results(d, cb_cache[cb_self[d]], TopK) :
              cb_result' = [cb_result EXCEPT ![d] = result]
        /\ cb_pc' = [cb_pc EXCEPT ![d] = "done"]
        /\ UNCHANGED <<cb_files, cb_cache, cb_self, cb_fallback>>

\* the rest of the technical recommend_courses: the vectorizer is fitted on
\* the course table of the major for every request
RecommendTechnical ==
    /\ cb_pc["technical"] = "loaded"
    /\ LET cache == cb_cache[cb_self["technical"]]
       IN \E fit \in FitOutcomes(Len(cache.df)) :
             IF fit = "ValueError"
             THEN /\ cb_pc' = [cb_pc EXCEPT !["technical"] = "failed"]
                  /\ UNCHANGED cb_result
             ELSE /\ \E result \in recommend_results("technical", cache, TopK) :
                        cb_result' = [cb_result EXCEPT !["technical"] = result]
                  /\ cb_pc' = [cb_pc EXCEPT !["technical"] = "done"]
    /\ UNCHANGED <<cb_files, cb_cache, cb_self, cb_fallback>>

\* routes.py 507-529: get_technical falls back to the old recommender, which
\* loads the data loader's files when it is first built
TechnicalFallback ==
    /\ cb_pc["technical"] = "failed"
    /\ LET caches == load_into(cb_cache, "data_loader", cb_files["data_loader"])
       IN /\ cb_cache' = caches
          /\ cb_result' = [cb_result EXCEPT
                              !["technical"] = fallback_result(caches["data_loader"], TopK)]
    /\ cb_fallback' = TRUE
    /\ cb_pc' = [cb_pc EXCEPT !["technical"] = "done"]
    /\ UNCHANGED <<cb_files, cb_self>>

\* the tasks in the order the endpoint lists them
TaskOrder == <<"gened", "club", "technical">>

\* the recommenders after the tasks of order have run one after another
RECURSIVE SequentialCaches(_, _)
SequentialCaches(order, caches) ==
    IF order = <<>> THEN caches
    ELSE SequentialCaches(Tail(order),
                          load_into(caches, recommender_of(Head(order)),
                                    cb_files[Head(order)]))

\* what the task at place i of TaskOrder can return when the tasks run one
\* after another on recommenders that have served no request
SequentialResults(i) ==
    LET d == TaskOrder[i]
        caches == SequentialCaches(SubSeq(TaskOrder, 1, i),
                                   [r \in Recommenders |-> NotLoaded])
        cache == caches[recommender_of(d)]
    IN IF d = "technical" /\ cb_fallback
       THEN {fallback_result(read_corpus(cb_files["data_loader"]), TopK)}
       ELSE recommend_results(d, cache, TopK)

\* a step of the thread of domain d
StepOf(d) == cb_pc'[d] # cb_pc[d]

\* C20: a step of one domain's request leaves the cached corpus, vectorizer
\* and matrix of the other two domains as they were, and leaves its own
\* corpus table as it was once it is loaded; and what each domain returns
\* when the three run concurrently is what it returns when they run one
\* after another.
C20_DomainsIndependent ==
    /\ [][\A d \in Domains :
            StepOf(d) =>
                /\ \A other \in Domains \ {d} : cb_cache'[other] = cb_cache[other]
                /\ cb_cache[d].loaded => cb_cache'[d] = cb_cache[d]]_vars
    /\ [](\A i \in 1..Len(TaskOrder) :
            cb_pc[TaskOrder[i]] = "done"
                => cb_result[TaskOrder[i]] \in SequentialResults(i))

\* the club thread loaded and answered while the gened thread, first in the
\* task order, had not yet loaded its corpus, and the corpora differ
C20_Witness ==
    /\ cb_pc["club"] = "done"
    /\ cb_pc["gened"] = "got"
    /\ cb_pc["technical"] = "loaded"
    /\ cb_cache["club"].loaded /\ ~cb_cache["gened"].loaded
    /\ cb_files["club"] # cb_files["gened"]
    /\ cb_files["technical"] # cb_files["club"]
    /\ cb_result["club"] # <<>>

-----------------------------------------------------------------------------
(* parse_prerequisite_string on prerequisite texts                          *)

Parenthesized_and_MATH221 == <<"(", "C", "S", " ", "1", "2", "4", " ", "o",
    "r", " ", "C", "S", " ", "1", "2", "5", ")", " ", "a", "n", "d", " ", "M",
    "A", "T", "H", " ", "2", "2", "1">>
OpenParenCS124 == <<"(", "C", "S", " ", "1", "2", "4">>
CS125_ParenAndMATH221 == <<"C", "S", " ", "1", "2", "5", ")", " ", "A", "N",
    "D", " ", "M", "A", "T", "H", " ", "2", "2", "1">>

\* the words that join course codes in the texts, with their blanks
Joiners == {<<" ", "o", "r", " ">>, <<" ", "a", "n", "d", " ">>, <<" ", "O",
    "R", " ">>, <<" ", " ", "o", "r", " ", " ">>,
    <<" ", " ", "A", "N", "D", " ">>}

\* prerequisite texts: nothing, blanks, one code, two codes joined by a
\* word, and the docstring's bracketed example
PrereqTexts ==
    {<<>>, <<" ">>, <<" ", " ", " ">>, Parenthesized_and_MATH221}
        \cup {CS124, CS125, MATH221, cs124_tight, <<" ", "C", "S", " ", "1",
            "2", "4", " ">>}
        \cup {a \o j \o b : a \in {CS124, cs124_tight, MATH221, CS125},
                           j \in Joiners, b \in {CS125, MATH221, cs125_lower}}

NoGroups == <<<<"?">>>>

PpInit ==
    /\ pp_pc = "call"
    /\ pp_prereq_str \in PrereqTexts
    /\ pp_groups = NoGroups

PpIdle ==
    /\ pp_pc = "idle"
    /\ pp_prereq_str = <<>>
    /\ pp_groups = NoGroups

\* one call parse_prerequisite_string(prereq_str)
ParsePrerequisiteString ==
    /\ pp_pc = "call"
    /\ pp_groups' = parse_prerequisite_string(pp_prereq_str)
    /\ pp_pc' = "done"
    /\ UNCHANGED pp_prereq_str

\* C27: parse_prerequisite_string returns the groups its docstring states:
\* "CS 124 or CS 125" gives the one group [CS 124, CS 125], "CS 124 and
\* MATH 221" gives the two groups [CS 124] and [MATH 221], "(CS 124 or
\* CS 125) and MATH 221" gives [CS 124, CS 125] and [MATH 221], and an empty
\* or whitespace-only text gives no group.
C27_ParseAsDocumented ==
    pp_pc = "done" =>
        /\ pp_prereq_str = CS124_or_CS125 => pp_groups = <<<<CS124, CS125>>>>
        /\ pp_prereq_str = CS124_and_MATH221
              => pp_groups = <<<<CS124>>, <<MATH221>>>>
        /\ pp_prereq_str = Parenthesized_and_MATH221
              => pp_groups = <<<<CS124, CS125>>, <<MATH221>>>>
        /\ Strip(pp_prereq_str) = <<>> => pp_groups = <<>>

\* the "and" and the empty cases of C27 alone
ParseAndAndEmptyAsDocumented ==
    pp_pc = "done" =>
        /\ pp_prereq_str = CS124_and_MATH221
              => pp_groups = <<<<CS124>>, <<MATH221>>>>
        /\ Strip(pp_prereq_str) = <<>> => pp_groups = <<>>

\* what the parser returns for the two examples that hold alternatives
ParseOfAlternatives ==
    pp_pc = "done" =>
        /\ pp_prereq_str = CS124_or_CS125 => pp_groups = <<<<CS124>>, <<CS125>>>>
        /\ pp_prereq_str = Parenthesized_and_MATH221
              => pp_groups = <<<<OpenParenCS124>>, <<CS125_ParenAndMATH221>>>>

-----------------------------------------------------------------------------
(* The combined endpoint: failures of the domains                           *)
(* get_gened, get_clubs and get_technical each catch what their recommender *)
(* raises; get_combined_recommendations gathers what they return.           *)

\* the technical task is started whatever the request holds
always_runs_technical(major_name) == TRUE

\* routes.py 545: `if request.major_name:`
runs_technical(major_name) == major_name \notin {"None", ""}

\* major_name of a request: absent, empty, a major both recommenders know, a
\* major only the data loader knows, a major nobody knows
EndpointMajors == {"None", "", "Computer Science", "Statistics", "Astrology"}
TechnicalMajors == {"Computer Science"}
LoaderMajors == {"Computer Science", "Statistics"}

\* what a recommender call can do
CallOutcomes == {"returns", "raises"}

GenedList == <<"gened 1", "gened 2">>
ClubList == <<"club 1">>
TechnicalList == <<"technical 1">>
FallbackList == <<"course 1", "course 2">>

NotRun == [state |-> "not run"]
Returned(value) == [state |-> "returned", value |-> value]

\* get_gened / get_clubs: the recommendations, or [] when the call raises
list_or_empty(outcome, recommendations) ==
    IF outcome = "raises" THEN <<>> ELSE recommendations

\* routes.py 507-533: the fallback of get_technical
technical_fallback(major_name, outcome) ==
    IF outcome = "raises" THEN [courses |-> <<>>]
    ELSE IF major_name \in LoaderMajors
         THEN [courses |-> FallbackList, progress |-> "progress"]
         ELSE [courses |-> <<>>]

\* routes.py 556-580: the results assembled from the gathered task results
assemble(gened, clubs, technical) ==
    LET base == [gened |-> gened.value, clubs |-> clubs.value]
    IN IF technical = NotRun THEN base ELSE technical.value @@ base

EpInit ==
    /\ ep_major_name \in EndpointMajors
    /\ ep_outcome \in [{"gened", "club", "technical", "fallback"} -> CallOutcomes]
    /\ ep_task = [d \in Domains |-> NotRun]
    /\ ep_started = {}
    /\ ep_pc = "start"
    /\ ep_response = [status |-> 0]

EpIdle ==
    /\ ep_major_name = "None"
    /\ ep_outcome = [c \in {"gened", "club", "technical", "fallback"} |-> "returns"]
    /\ ep_task = [d \in Domains |-> NotRun]
    /\ ep_started = {}
    /\ ep_pc = "idle"
    /\ ep_response = [status |-> 0]

\* routes.py 537-546: the tasks are created
StartTasks ==
    /\ ep_pc = "start"
    /\ ep_started' = {"gened", "club"}
                        \cup (IF runs_technical(ep_major_name) THEN {"technical"}
                              ELSE {})
    /\ ep_pc' = "gather"
    /\ UNCHANGED <<ep_major_name, ep_outcome, ep_task, ep_response>>

\* routes.py 453-469: the thread of get_gened
GetGened ==
    /\ ep_pc = "gather"
    /\ "gened" \in ep_started /\ ep_task["gened"] = NotRun
    /\ ep_task' = [ep_task EXCEPT
                      !["gened"] = Returned(list_or_empty(ep_outcome["gened"], GenedList))]
    /\ UNCHANGED <<ep_major_name, ep_outcome, ep_started, ep_pc, ep_response>>

\* routes.py 471-487: the thread of get_clubs
GetClubs ==
    /\ ep_pc = "gather"
    /\ "club" \in ep_started /\ ep_task["club"] = NotRun
    /\ ep_task' = [ep_task EXCEPT
                      !["club"] = Returned(list_or_empty(ep_outcome["club"], ClubList))]
    /\ UNCHANGED <<ep_major_name, ep_outcome, ep_started, ep_pc, ep_response>>

\* routes.py 489-533: the thread of get_technical; the technical
\* recommender raises ValueError for a major it does not know
GetTechnical ==
    /\ ep_pc = "gather"
    /\ "technical" \in ep_started /\ ep_task["technical"] = NotRun
    /\ LET raised == ep_outcome["technical"] = "raises"
                         \/ ep_major_name \notin TechnicalMajors
       IN ep_task' = [ep_task EXCEPT
                         !["technical"] =
                             IF raised
                             THEN Returned(technical_fallback(ep_major_name,
                                                              ep_outcome["fallback"]))
                             ELSE Returned([technical_courses |-> TechnicalList])]
    /\ UNCHANGED <<ep_major_name, ep_outcome, ep_started, ep_pc, ep_response>>

\* routes.py 549-580: asyncio.gather returns and the results are assembled
GatherResults ==
    /\ ep_pc = "gather"
    /\ \A d \in ep_started : ep_task[d] # NotRun
    /\ ep_response' = [status |-> 200,
                       results |-> assemble(ep_task["gened"], ep_task["club"],
                                            ep_task["technical"])]
    /\ ep_pc' = "responded"
    /\ UNCHANGED <<ep_major_name, ep_outcome, ep_task, ep_started>>

\* C28: the combined request answers whatever fails. The gened and club
\* lists are the recommender's, or empty when it fails, whatever the other
\* domains do; a failing technical recommender or a major it does not know
\* gives the fallback's courses, or courses = [] when the fallback fails or
\* the data loader does not know the major; without major_name no technical
\* task runs.
C28_FailuresContained ==
    /\ "technical" \in ep_started => ep_major_name \notin {"None", ""}
    /\ ep_pc = "responded" =>
          LET results == ep_response.results
              technical_failed == ep_outcome["technical"] = "raises"
                                      \/ ep_major_name \notin TechnicalMajors
              technical_keys == {"technical_courses", "courses", "progress"}
          IN /\ ep_response.status = 200
             /\ results.gened = (IF ep_outcome["gened"] = "raises" THEN <<>>
                                 ELSE GenedList)
             /\ results.clubs = (IF ep_outcome["club"] = "raises" THEN <<>>
                                 ELSE ClubList)
             /\ ep_major_name \in {"None", ""}
                   => DOMAIN results \cap technical_keys = {}
             /\ (ep_major_name \notin {"None", ""} /\ ~technical_failed)
                   => /\ results.technical_courses = TechnicalList
                      /\ "courses" \notin DOMAIN results
             /\ (ep_major_name \notin {"None", ""} /\ technical_failed)
                   => /\ "technical_courses" \notin DOMAIN results
                      /\ results.courses =
                             (IF ep_outcome["fallback"] = "raises"
                                     \/ ep_major_name \notin LoaderMajors
                              THEN <<>> ELSE FallbackList)

\* the gened recommender failed, the technical recommender did not know the
\* major and the fallback answered; the club list is untouched
C28_Witness ==
    /\ ep_pc = "responded"
    /\ ep_major_name = "Statistics"
    /\ ep_outcome["gened"] = "raises"
    /\ ep_outcome["club"] = "returns"
    /\ ep_outcome["fallback"] = "returns"
    /\ ep_response.results.gened = <<>>
    /\ ep_response.results.clubs = ClubList
    /\ ep_response.results.courses = FallbackList

-----------------------------------------------------------------------------
(* The singleton accessors                                                  *)
(* get_club_recommender, get_gened_recommender, get_technical_recommender,  *)
(* get_recommender and get_data_loader: `global _x; if _x is None:          *)
(* _x = X(); return _x`, called from worker threads.                        *)

Accessors ==
    {"get_club_recommender", "get_gened_recommender", "get_technical_recommender",
     "get_recommender", "get_data_loader"}

\* the module global before the first call
NoInstance == 0

SgInit ==
    /\ sg_accessor \in Accessors
    /\ sg_global = NoInstance
    /\ sg_pc = [t \in Threads |-> "call"]
    /\ sg_new = [t \in Threads |-> NoInstance]
    /\ sg_returned = [t \in Threads |-> NoInstance]
    /\ sg_constructed = 0

SgIdle ==
    /\ sg_accessor = "get_club_recommender"
    /\ sg_global = NoInstance
    /\ sg_pc = [t \in Threads |-> "idle"]
    /\ sg_new = [t \in Threads |-> NoInstance]
    /\ sg_returned = [t \in Threads |-> NoInstance]
    /\ sg_constructed = 0

\* `if _club_recommender is None:`
CheckInstance ==
    \E t \in Threads :
        /\ sg_pc[t] = "call"
        /\ sg_pc' = [sg_pc EXCEPT ![t] = IF sg_global = NoInstance THEN "construct"
                                         ELSE "return"]
        /\ UNCHANGED <<sg_accessor, sg_global, sg_new, sg_returned, sg_constructed>>

\* `ClubRecommender()`: the constructor runs and gives a new object
ConstructInstance ==
    \E t \in Threads :
        /\ sg_pc[t] = "construct"
        /\ sg_constructed' = sg_constructed + 1
        /\ sg_new' = [sg_new EXCEPT ![t] = sg_constructed + 1]
        /\ sg_pc' = [sg_pc EXCEPT ![t] = "assign"]
        /\ UNCHANGED <<sg_accessor, sg_global, sg_returned>>

\* `_club_recommender = <the new object>`
AssignInstance ==
    \E t \in Threads :
        /\ sg_pc[t] = "assign"
        /\ sg_global' = sg_new[t]
        /\ sg_pc' = [sg_pc EXCEPT ![t] = "return"]
        /\ UNCHANGED <<sg_accessor, sg_new, sg_returned, sg_constructed>>

\* `return _club_recommender`
ReturnInstance ==
    \E t \in Threads :
        /\ sg_pc[t] = "return"
        /\ sg_returned' = [sg_returned EXCEPT ![t] = sg_global]
        /\ sg_pc' = [sg_pc EXCEPT ![t] = "returned"]
        /\ UNCHANGED <<sg_accessor, sg_global, sg_new, sg_constructed>>

\* the thread calls the accessor again
CallAgain ==
    \E t \in Threads :
        /\ sg_pc[t] = "returned"
        /\ sg_pc' = [sg_pc EXCEPT ![t] = "call"]
        /\ UNCHANGED <<sg_accessor, sg_global, sg_new, sg_returned, sg_constructed>>

\* C30: each accessor constructs its instance at most once and returns that
\* same instance on every call, also when the first calls are made by
\* several threads at once.
C30_SingletonOnce ==
    /\ sg_constructed <= 1
    /\ \A t, u \in Threads :
          (sg_returned[t] # NoInstance /\ sg_returned[u] # NoInstance)
              => sg_returned[t] = sg_returned[u]

-----------------------------------------------------------------------------
(* Specifications: each runs one part of the backend, the others idle      *)

PrereqInit == PqInit /\ YrIdle /\ MmIdle /\ LdIdle /\ TcIdle /\ NmIdle /\
    ScIdle /\ ClIdle /\ CbIdle /\ PpIdle /\ EpIdle /\ SgIdle
PrereqOthers == <<yrvars, mmvars, ldvars, tcvars, nmvars, scvars, clvars,
    cbvars, ppvars, epvars, sgvars>>
PrereqNext ==
    \/ CanTakeCourse /\ UNCHANGED PrereqOthers
SpecPrereq == PrereqInit /\ [][PrereqNext]_vars

YearInit == YrInit /\ PqIdle /\ MmIdle /\ LdIdle /\ TcIdle /\ NmIdle /\ ScIdle
    /\ ClIdle /\ CbIdle /\ PpIdle /\ EpIdle /\ SgIdle
YearOthers == <<pqvars, mmvars, ldvars, tcvars, nmvars, scvars, clvars,
    cbvars, ppvars, epvars, sgvars>>
YearNext ==
    \/ DetectStudentYear /\ UNCHANGED YearOthers
SpecYear == YearInit /\ [][YearNext]_vars

MmrInit == MmInit /\ PqIdle /\ YrIdle /\ LdIdle /\ TcIdle /\ NmIdle /\ ScIdle
    /\ ClIdle /\ CbIdle /\ PpIdle /\ EpIdle /\ SgIdle
MmrOthers == <<pqvars, yrvars, ldvars, tcvars, nmvars, scvars, clvars, cbvars,
    ppvars, epvars, sgvars>>
MmrNext ==
    \/ MmrFirst /\ UNCHANGED MmrOthers
    \/ MmrIterate /\ UNCHANGED MmrOthers
    \/ MmrReturn /\ UNCHANGED MmrOthers
    \/ RecommendTail /\ UNCHANGED MmrOthers
SpecMMR == MmrInit /\ [][MmrNext]_vars
\* the diversifier keeps running: no step of it is put off for ever
SpecMMRFair == SpecMMR /\ WF_vars(MmrNext)

LoadInit == LdInit /\ PqIdle /\ YrIdle /\ MmIdle /\ TcIdle /\ NmIdle /\ ScIdle
    /\ ClIdle /\ CbIdle /\ PpIdle /\ EpIdle /\ SgIdle
LoadOthers == <<pqvars, yrvars, mmvars, tcvars, nmvars, scvars, clvars,
    cbvars, ppvars, epvars, sgvars>>
LoadNext ==
    \/ \E t \in Threads : LoadCheck(t) /\ UNCHANGED LoadOthers
    \/ \E t \in Threads : ReadCsv(t) /\ UNCHANGED LoadOthers
    \/ \E t \in Threads : AssignFrame(t) /\ UNCHANGED LoadOthers
    \/ \E t \in Threads : BuildVocab(t) /\ UNCHANGED LoadOthers
    \/ \E t \in Threads : NewVectorizer(t) /\ UNCHANGED LoadOthers
    \/ \E t \in Threads : FitTransform(t) /\ UNCHANGED LoadOthers
    \/ \E t \in Threads : StoreMatrix(t) /\ UNCHANGED LoadOthers
    \/ \E t \in Threads : Score(t) /\ UNCHANGED LoadOthers
    \/ \E t \in Threads : NextRequest(t) /\ UNCHANGED LoadOthers
SpecLoad == LoadInit /\ [][LoadNext]_vars

TechInit == TcInit /\ PqIdle /\ YrIdle /\ MmIdle /\ LdIdle /\ NmIdle /\ ScIdle
    /\ ClIdle /\ CbIdle /\ PpIdle /\ EpIdle /\ SgIdle
TechOthers == <<pqvars, yrvars, mmvars, ldvars, nmvars, scvars, clvars,
    cbvars, ppvars, epvars, sgvars>>
TechNext ==
    \/ TechLookup /\ UNCHANGED TechOthers
    \/ TechFilter /\ UNCHANGED TechOthers
    \/ TechScore /\ UNCHANGED TechOthers
    \/ TechRank /\ UNCHANGED TechOthers
    \/ RuleRecommend /\ UNCHANGED TechOthers
SpecTech == TechInit /\ [][TechNext]_vars

NormalizeInit == NmInit /\ PqIdle /\ YrIdle /\ MmIdle /\ LdIdle /\ TcIdle /\
    ScIdle /\ ClIdle /\ CbIdle /\ PpIdle /\ EpIdle /\ SgIdle
NormalizeOthers == <<pqvars, yrvars, mmvars, ldvars, tcvars, scvars, clvars,
    cbvars, ppvars, epvars, sgvars>>
NormalizeNext ==
    \/ NormalizeCode /\ UNCHANGED NormalizeOthers
    \/ NormalizeAgain /\ UNCHANGED NormalizeOthers
SpecNormalize == NormalizeInit /\ [][NormalizeNext]_vars

ScoreInit == ScInit /\ PqIdle /\ YrIdle /\ MmIdle /\ LdIdle /\ TcIdle /\
    NmIdle /\ ClIdle /\ CbIdle /\ PpIdle /\ EpIdle /\ SgIdle
ScoreOthers == <<pqvars, yrvars, mmvars, ldvars, tcvars, nmvars, clvars,
    cbvars, ppvars, epvars, sgvars>>
ScoreNext ==
    \/ ScoreInterest /\ UNCHANGED ScoreOthers
    \/ ClubBoosts /\ UNCHANGED ScoreOthers
    \/ GenedBoosts /\ UNCHANGED ScoreOthers
    \/ TechnicalBoosts /\ UNCHANGED ScoreOthers
SpecScore == ScoreInit /\ [][ScoreNext]_vars

ClubInit == ClInit /\ PqIdle /\ YrIdle /\ MmIdle /\ LdIdle /\ TcIdle /\ NmIdle
    /\ ScIdle /\ CbIdle /\ PpIdle /\ EpIdle /\ SgIdle
ClubOthers == <<pqvars, yrvars, mmvars, ldvars, tcvars, nmvars, scvars,
    cbvars, ppvars, epvars, sgvars>>
ClubNext ==
    \/ ClubFixTypo /\ UNCHANGED ClubOthers
    \/ ClubMergeTags /\ UNCHANGED ClubOthers
    \/ GenedFixTypo /\ UNCHANGED ClubOthers
SpecClub == ClubInit /\ [][ClubNext]_vars

CombinedInit == CbInit /\ PqIdle /\ YrIdle /\ MmIdle /\ LdIdle /\ TcIdle /\
    NmIdle /\ ScIdle /\ ClIdle /\ PpIdle /\ EpIdle /\ SgIdle
CombinedOthers == <<pqvars, yrvars, mmvars, ldvars, tcvars, nmvars, scvars,
    clvars, ppvars, epvars, sgvars>>
CombinedNext ==
    \/ GetRecommender /\ UNCHANGED CombinedOthers
    \/ LoadCorpus /\ UNCHANGED CombinedOthers
    \/ RecommendFromCorpus /\ UNCHANGED CombinedOthers
    \/ RecommendTechnical /\ UNCHANGED CombinedOthers
    \/ TechnicalFallback /\ UNCHANGED CombinedOthers
SpecCombined == CombinedInit /\ [][CombinedNext]_vars

ParseInit == PpInit /\ PqIdle /\ YrIdle /\ MmIdle /\ LdIdle /\ TcIdle /\
    NmIdle /\ ScIdle /\ ClIdle /\ CbIdle /\ EpIdle /\ SgIdle
ParseOthers == <<pqvars, yrvars, mmvars, ldvars, tcvars, nmvars, scvars,
    clvars, cbvars, epvars, sgvars>>
ParseNext ==
    \/ ParsePrerequisiteString /\ UNCHANGED ParseOthers
SpecParse == ParseInit /\ [][ParseNext]_vars

EndpointInit == EpInit /\ PqIdle /\ YrIdle /\ MmIdle /\ LdIdle /\ TcIdle /\
    NmIdle /\ ScIdle /\ ClIdle /\ CbIdle /\ PpIdle /\ SgIdle
EndpointOthers == <<pqvars, yrvars, mmvars, ldvars, tcvars, nmvars, scvars,
    clvars, cbvars, ppvars, sgvars>>
EndpointNext ==
    \/ StartTasks /\ UNCHANGED EndpointOthers
    \/ GetGened /\ UNCHANGED EndpointOthers
    \/ GetClubs /\ UNCHANGED EndpointOthers
    \/ GetTechnical /\ UNCHANGED EndpointOthers
    \/ GatherResults /\ UNCHANGED EndpointOthers
SpecEndpoint == EndpointInit /\ [][EndpointNext]_vars

SingletonInit == SgInit /\ PqIdle /\ YrIdle /\ MmIdle /\ LdIdle /\ TcIdle /\
    NmIdle /\ ScIdle /\ ClIdle /\ CbIdle /\ PpIdle /\ EpIdle
SingletonOthers == <<pqvars, yrvars, mmvars, ldvars, tcvars, nmvars, scvars,
    clvars, cbvars, ppvars, epvars>>
SingletonNext ==
    \/ CheckInstance /\ UNCHANGED SingletonOthers
    \/ ConstructInstance /\ UNCHANGED SingletonOthers
    \/ AssignInstance /\ UNCHANGED SingletonOthers
    \/ ReturnInstance /\ UNCHANGED SingletonOthers
    \/ CallAgain /\ UNCHANGED SingletonOthers
SpecSingleton == SingletonInit /\ [][SingletonNext]_vars

=============================================================================
